---- MODULE Spec2Model ----
(***************************************************************************)
(* Model of the recall-ai upload-triggered flashcard ingestion pipeline:   *)
(* the Cloud Function onFileUpload (functions/src/index.ts), which         *)
(* validates a storage-finalize event, downloads the object, calls the     *)
(* remote AI service and persists a Deck and its Flashcards in Firestore.  *)
(*                                                                         *)
(* Strings the code takes apart or concatenates (object path, content      *)
(* type, identifiers) are sequences of one-character strings, so that      *)
(* split, lastIndexOf, substring, toLowerCase, startsWith and template     *)
(* concatenation are computed character by character as JavaScript does.   *)
(***************************************************************************)
EXTENDS Integers, Sequences, FiniteSets, TLC

VARIABLES
  event,        \* event[i]: the ObjectMetadata handed to invocation i
  aiRequest,    \* aiRequest[i]: the request sent to the AI service, if any
  aiServiceResponse, \* local aiServiceResponse: the answer to that request
  pc,           \* pc[i]: the await at which invocation i is suspended
  userId,       \* local userId
  fileType,     \* local fileType
  payload,      \* downloaded buffer / extracted textContent
  deckId,       \* local deckId of the success path
  failedDeckId, \* local deckId of the catch block
  deckData,     \* local deckData
  flashcards,   \* local flashcards (aiData.flashcards)
  batch,        \* local batch: the sequence of set operations queued
  error,        \* the error caught by the outer catch
  outcome,      \* how the invocation ended (the log line it emitted)
  effects,      \* side effects attempted so far, in order
  extraction,   \* what the download and the PDF parse delivered
  decks,        \* Firestore collection decks: deck id -> document
  cards,        \* Firestore sub-collections: deck id -> (card id -> document)
  now,          \* Date.now()
  \* the upload widgets of the web client (FileUpload, AudioUpload)
  user,         \* useAuth().user
  activeTab,    \* UploadTabs: the tab whose widget is mounted
  widget,       \* widget[w]: the React state of upload widget w
  metadataLoads, \* files whose getAudioInfo promise is still pending
  uploadTasks,  \* uploadTasks[w]: the storage upload tasks w has started
  \* the deck page of the web client (app/deck/[deckId]/page.tsx)
  deckPage,     \* the React state of DeckDetailPage
  exportCall,   \* the handleExport call in progress: its await and closure
  ankiRequests, \* fetch requests sent to the AI service's /export-anki
  ankiResponses, \* what came back for them: the fetch's outcome and the body
  downloads,    \* files offered to the user by a click on a download link
  alerts,       \* messages shown by alert()
  \* the decks list page of the web client (app/decks/page.tsx)
  decksPage     \* the React state of DecksPage and of its useAuth hook

functionVars ==
  <<event, aiRequest, aiServiceResponse, pc, userId, fileType, payload,
    deckId, failedDeckId, deckData, flashcards, batch, error, outcome,
    effects, extraction, decks, cards, now>>

uploadVars == <<user, activeTab, widget, metadataLoads, uploadTasks>>

exportVars ==
  <<deckPage, exportCall, ankiRequests, ankiResponses, downloads, alerts>>

listVars == <<decksPage>>

clientVars == <<uploadVars, exportVars, listVars>>

vars == <<functionVars, clientVars>>

----------------------------------------------------------------------------
(* Bounds of the model *)

MaxCards == 2      \* longest flashcard list the AI service returns
MaxTime  == 1      \* Date.now() ranges over 0..MaxTime

----------------------------------------------------------------------------
(* JavaScript values and string operations *)

\* undefined / null for a string-valued slot (no character is "undefined")
Undefined == <<"undefined">>
\* undefined for object.size
NoSize == -1
\* undefined for an opaque card field
Absent == "<absent>"

\* JS truthiness of a string slot: undefined, null and "" are falsy
Truthy(s) == s # Undefined /\ s # <<>>
\* JS truthiness of an opaque card field
TruthyField(f) == f # Absent /\ f # ""

UpperLetters == <<"A","B","C","D","E","F","G","H","I","J","K","L","M",
                  "N","O","P","Q","R","S","T","U","V","W","X","Y","Z">>
LowerLetters == <<"a","b","c","d","e","f","g","h","i","j","k","l","m",
                  "n","o","p","q","r","s","t","u","v","w","x","y","z">>

LowerChar(c) ==
  IF \E k \in 1..26 : UpperLetters[k] = c
  THEN LowerLetters[CHOOSE k \in 1..26 : UpperLetters[k] = c]
  ELSE c

\* String.prototype.toLowerCase
ToLowerCase(s) == [k \in 1..Len(s) |-> LowerChar(s[k])]

\* String.prototype.split(sep) for a one-character separator
Split(s, sep) ==
  LET at == {k \in 1..Len(s) : s[k] = sep}
      \* the position of the j-th separator; 0 before the first segment and
      \* Len(s) + 1 after the last
      cut(j) == IF j = 0 THEN 0
                ELSE IF j > Cardinality(at) THEN Len(s) + 1
                ELSE CHOOSE k \in at : Cardinality({m \in at : m < k}) = j - 1
  IN [j \in 1..(Cardinality(at) + 1) |-> SubSeq(s, cut(j - 1) + 1, cut(j) - 1)]

\* String.prototype.lastIndexOf(c): 0-based, -1 when c does not occur
LastIndexOf(s, c) ==
  LET hits == {k \in 1..Len(s) : s[k] = c} IN
  IF hits = {} THEN -1
  ELSE (CHOOSE k \in hits : \A j \in hits : j <= k) - 1

\* String.prototype.substring(start): a negative start counts as 0
Substring(s, start) ==
  LET from == IF start < 0 THEN 0 ELSE IF start > Len(s) THEN Len(s) ELSE start
  IN SubSeq(s, from + 1, Len(s))

\* String.prototype.startsWith
StartsWith(s, prefix) ==
  Len(prefix) <= Len(s) /\ SubSeq(s, 1, Len(prefix)) = prefix

\* Array.prototype.pop on the result of split (never empty)
Pop(parts) == parts[Len(parts)]

Digits == <<"0","1","2","3","4","5","6","7","8","9">>

\* `${n}` for a non-negative integer n
RECURSIVE NumberToString(_)
NumberToString(n) ==
  IF n < 10 THEN <<Digits[n + 1]>>
  ELSE NumberToString(n \div 10) \o <<Digits[(n % 10) + 1]>>

\* Array.prototype.join for a one-character separator
RECURSIVE Join(_, _)
Join(parts, sep) ==
  IF Len(parts) = 0 THEN <<>>
  ELSE IF Len(parts) = 1 THEN parts[1]
  ELSE parts[1] \o <<sep>> \o Join(Tail(parts), sep)

----------------------------------------------------------------------------
(* String literals of the code and of the inputs *)

StrUploads == <<"u", "p", "l", "o", "a", "d", "s">>
StrTmp == <<"t", "m", "p">>
StrDocuments == <<"d", "o", "c", "u", "m", "e", "n", "t", "s">>
StrAudio == <<"a", "u", "d", "i", "o">>
StrVideo == <<"v", "i", "d", "e", "o">>
StrSub == <<"s", "u", "b">>
StrU1 == <<"u", "1">>
StrU2 == <<"u", "2">>
TypePdf == <<"a", "p", "p", "l", "i", "c", "a", "t", "i", "o", "n", "/", "p", "d", "f">>
TypeTxt == <<"t", "e", "x", "t", "/", "p", "l", "a", "i", "n">>
TypeTxtCharset == <<"t", "e", "x", "t", "/", "p", "l", "a", "i", "n", ";", " ", "c", "h", "a", "r", "s", "e", "t", "=", "u", "t", "f", "-", "8">>
TypeHtml == <<"t", "e", "x", "t", "/", "h", "t", "m", "l">>
TypeMp3 == <<"a", "u", "d", "i", "o", "/", "m", "p", "3">>
TypeWav == <<"a", "u", "d", "i", "o", "/", "w", "a", "v">>
TypeM4a == <<"a", "u", "d", "i", "o", "/", "m", "4", "a">>
TypeFlac == <<"a", "u", "d", "i", "o", "/", "f", "l", "a", "c">>
TypeAac == <<"a", "u", "d", "i", "o", "/", "a", "a", "c">>
TypeOgg == <<"a", "u", "d", "i", "o", "/", "o", "g", "g">>
TypeMpeg == <<"a", "u", "d", "i", "o", "/", "m", "p", "e", "g">>
TypeMpeg4 == <<"a", "u", "d", "i", "o", "/", "m", "p", "e", "g", "4", "-", "g", "e", "n", "e", "r", "i", "c">>
ExtPdf == <<".", "p", "d", "f">>
ExtTxt == <<".", "t", "x", "t">>
ExtMp3 == <<".", "m", "p", "3">>
ExtWav == <<".", "w", "a", "v">>
ExtM4a == <<".", "m", "4", "a">>
ExtFlac == <<".", "f", "l", "a", "c">>
ExtAac == <<".", "a", "a", "c">>
ExtOgg == <<".", "o", "g", "g">>
StrCardPrefix == <<"c", "a", "r", "d", "_">>
StrFailedSuffix == <<"_", "f", "a", "i", "l", "e", "d">>
StrDeckPrefix == <<"d", "e", "c", "k", "-">>
StrUntitledDeck == <<"U", "n", "t", "i", "t", "l", "e", "d", " ", "D", "e", "c", "k">>
StrFailedProcessing == <<"F", "a", "i", "l", "e", "d", " ", "P", "r", "o", "c", "e", "s", "s", "i", "n", "g">>
CardIdX == <<"x">>
FileLowerPdf == <<"a", ".", "p", "d", "f">>
FileUpperPdf == <<"a", ".", "P", "D", "F">>
FileTxt == <<"a", ".", "t", "x", "t">>
FileTwoDots == <<"a", ".", "b", ".", "t", "x", "t">>
FileDotPdf == <<".", "p", "d", "f">>
FileNoExt == <<"a">>
FileExe == <<"a", ".", "e", "x", "e">>
FileMp3 == <<"a", ".", "m", "p", "3">>
FileUpperOgg == <<"b", ".", "O", "G", "G">>
FileOga == <<"a", ".", "o", "g", "a">>

----------------------------------------------------------------------------
(* The Validator: onFileUpload, lines 14-91 *)

\* const pathParts = filePath?.split('/')
PathParts(filePath) ==
  IF filePath = Undefined THEN Undefined ELSE Split(filePath, "/")

\* if (pathParts && pathParts.length >= 4 && pathParts[0] === 'uploads')
PathShapeOk(filePath) ==
  /\ filePath # Undefined
  /\ Len(PathParts(filePath)) >= 4
  /\ PathParts(filePath)[1] = StrUploads

\* fileType = pathParts[1] (initially null)
ParseFileType(filePath) ==
  IF PathShapeOk(filePath) THEN PathParts(filePath)[2] ELSE Undefined

\* userId = pathParts[2] (initially null)
ParseUserId(filePath) ==
  IF PathShapeOk(filePath) THEN PathParts(filePath)[3] ELSE Undefined

\* a documents ceiling copied from the audio branch
MaxDocumentSizeOfAudio == 50 * 1024 * 1024

MaxDocumentSize == 10 * 1024 * 1024
MaxAudioSize    == 50 * 1024 * 1024

\* fileSize && parseInt(fileSize) > max; object.size is a decimal string,
\* so it is truthy whenever it is present
SizeExceeds(fileSize, max) == fileSize # NoSize /\ fileSize > max

\* one allow-list shared by both kinds
AllowedTypesOfBothKinds ==
  {TypePdf, TypeTxt, TypeMp3, TypeWav, TypeM4a, TypeFlac, TypeAac, TypeOgg, TypeMpeg}

AllowedDocumentTypes == {TypePdf, TypeTxt}
AllowedAudioTypes ==
  {TypeMp3, TypeWav, TypeM4a, TypeFlac, TypeAac, TypeOgg, TypeMpeg}
AllowedDocumentExtensions == {ExtPdf, ExtTxt}
AllowedAudioExtensions == {ExtMp3, ExtWav, ExtM4a, ExtFlac, ExtAac, ExtOgg}

\* allowed.some(type => contentType.startsWith(type))
TypeAllowed(contentType, allowed) ==
  \E type \in allowed : StartsWith(contentType, type)

\* filePath.toLowerCase().substring(filePath.lastIndexOf('.'))
FileExtension(filePath) ==
  Substring(ToLowerCase(filePath), LastIndexOf(filePath, "."))

\* The log line of the first check that rejects the event, in the order of
\* the code; "accepted" when every check passes.
Validate(e) ==
  LET filePath    == e.name
      contentType == e.contentType
      fileSize    == e.size
      uid         == ParseUserId(filePath)
      kind        == ParseFileType(filePath)
  IN
  IF ~Truthy(uid) \/ ~Truthy(kind) THEN "badPath"
  ELSE IF ~Truthy(filePath) \/ ~Truthy(contentType) THEN "noContentType"
  ELSE IF kind = StrDocuments THEN
         IF SizeExceeds(fileSize, MaxDocumentSize) THEN "tooLarge"
         ELSE IF ~TypeAllowed(contentType, AllowedDocumentTypes) THEN "badType"
         ELSE IF FileExtension(filePath) \notin AllowedDocumentExtensions
              THEN "badExtension"
         ELSE "accepted"
  ELSE IF kind = StrAudio THEN
         IF SizeExceeds(fileSize, MaxAudioSize) THEN "tooLarge"
         ELSE IF ~TypeAllowed(contentType, AllowedAudioTypes) THEN "badType"
         ELSE IF FileExtension(filePath) \notin AllowedAudioExtensions
              THEN "badExtension"
         ELSE "accepted"
  ELSE "unknownKind"

----------------------------------------------------------------------------
(* The inputs: storage-finalize events, object contents, AI answers *)

FileNames ==
  {FileLowerPdf, FileUpperPdf, FileTxt, FileTwoDots, FileDotPdf, FileNoExt,
   FileExe, FileMp3, FileUpperOgg, <<>>}

\* Object paths by their '/'-separated segments: the expected four segments,
\* a wrong first segment, an unknown kind, an empty user id, a nested
\* sub-folder (five segments), a missing user folder (three segments) and a
\* bare filename.
SegmentLists ==
       {<<root, kind, uid, f>> :
          root \in {StrUploads, StrTmp},
          kind \in {StrDocuments, StrAudio, StrVideo},
          uid \in {StrU1, <<>>}, f \in FileNames}
  \cup {<<StrUploads, kind, StrU1, StrSub, f>> :
          kind \in {StrDocuments, StrAudio, StrVideo}, f \in FileNames}
  \cup {<<StrUploads, kind, f>> :
          kind \in {StrDocuments, StrAudio}, f \in FileNames}
  \cup {<<FileLowerPdf>>}

ObjectNames == {Join(segs, "/") : segs \in SegmentLists} \cup {Undefined}

ContentTypes ==
  {Undefined, <<>>, TypePdf, TypeTxt, TypeTxtCharset, TypeHtml,
   TypeMpeg, TypeMpeg4}

ObjectSizes ==
  {NoSize, 1, MaxDocumentSize, MaxDocumentSize + 1,
   MaxAudioSize, MaxAudioSize + 1}

Events ==
  [name : ObjectNames, contentType : ContentTypes, size : ObjectSizes]

MinTextLength == 10
MaxTextLength == 100000

\* A text is known by its length and by whether it is whitespace only.
TextLengths ==
  {0, MinTextLength - 1, MinTextLength, MaxTextLength, MaxTextLength + 1}
Texts ==
  {t \in [len : TextLengths, blank : BOOLEAN] : t.len = 0 => t.blank}

NoPayload == [len |-> 0, blank |-> TRUE]

\* Flashcards as the AI service may return them: each field is present,
\* the empty string, or missing.
CardIds == {Undefined, <<>>, CardIdX, StrCardPrefix \o <<"2">>}

CardFieldPatterns ==
  { <<"cloze", "Q", "A", "S", "hard">>,
    <<Absent, Absent, Absent, Absent, Absent>>,
    <<"", "", "", "", "">>,
    <<Absent, "Q2", "A2", "S2", Absent>>,
    <<"definition", "", Absent, Absent, "easy">> }

FullCard(i) ==
  [id |-> i, type |-> "cloze", question |-> "Q", answer |-> "A",
   source_text |-> "S", difficulty |-> "hard"]

\* every identifier on a fully populated card, and every field pattern on a
\* card with no identifier
AiCards ==
  {FullCard(i) : i \in CardIds} \cup
  {[id |-> Undefined, type |-> f[1], question |-> f[2], answer |-> f[3],
    source_text |-> f[4], difficulty |-> f[5]] : f \in CardFieldPatterns}

RECURSIVE ListsUpTo(_, _)
ListsUpTo(S, n) ==
  IF n = 0 THEN {<<>>}
  ELSE LET shorter == ListsUpTo(S, n - 1) IN
       shorter \cup {Append(l, c) : l \in shorter, c \in S}

\* An answer of the AI service: the transport outcome and, for a 2xx
\* response, the shape of the body.
Answer(transport, body, success, shape, list) ==
  [transport |-> transport, body |-> body, success |-> success,
   cardsShape |-> shape, flashcards |-> list, model |-> Absent]

NoResponse == Answer("none", "null", Absent, "absent", <<>>)

FailureAnswers ==
  { Answer("networkError", "null", Absent, "absent", <<>>),
    Answer("non2xx", "null", Absent, "absent", <<>>),
    Answer("ok", "null", Absent, "absent", <<>>),
    Answer("ok", "object", Absent, "list", <<FullCard(CardIdX)>>),
    Answer("ok", "object", "false", "list", <<FullCard(CardIdX)>>),
    Answer("ok", "object", "true", "absent", <<>>),
    Answer("ok", "object", "true", "notAList", <<>>) }

SuccessAnswers(pool) ==
  {Answer("ok", "object", "true", "list", l) : l \in ListsUpTo(pool, MaxCards)}
  \cup {[Answer("ok", "object", "true", "list", <<FullCard(CardIdX)>>)
           EXCEPT !.model = "gemini-2.0"]}

\* The whole variety of answers is explored for one request of each kind;
\* every other request gets a network failure, a refusal or one card.  The
\* handling of the answer reads nothing of the event but the user id, the
\* filename and the kind, and nothing of the request.
RepresentativeNames ==
  {Join(<<StrUploads, StrDocuments, StrU1, FileTxt>>, "/"),
   Join(<<StrUploads, StrAudio, StrU1, FileMp3>>, "/")}

RepresentativePayloads ==
  {[len |-> MinTextLength, blank |-> FALSE], [len |-> 1, blank |-> FALSE]}

AiAnswersFor(e, request) ==
  IF /\ e.name \in RepresentativeNames
     /\ e.size = 1
     /\ e.contentType \in {TypeTxt, TypeMpeg}
     /\ request.text \in RepresentativePayloads
  THEN FailureAnswers \cup SuccessAnswers(AiCards)
  ELSE { Answer("networkError", "null", Absent, "absent", <<>>),
         Answer("ok", "object", "false", "list", <<FullCard(CardIdX)>>),
         Answer("ok", "object", "true", "list", <<FullCard(Undefined)>>) }

----------------------------------------------------------------------------
(* Content extraction: onFileUpload, lines 96-143 *)

\* the checks without the minimum length
TextVerdictNoMinimum(textContent) ==
  IF textContent.len = 0 \/ textContent.blank THEN "emptyText" ELSE "ok"

\* The outcome of the checks on the extracted text (lines 128-139)
TextVerdict(textContent) ==
  IF textContent.len = 0 \/ textContent.blank THEN "emptyText"
  ELSE IF textContent.len < MinTextLength THEN "tooShort"
  ELSE "ok"

\* the text is sent whole, whatever its length
TruncateNothing(textContent) == textContent

\* textContent.substring(0, maxTextLength) when it is longer (lines 140-143)
Truncate(textContent) ==
  IF textContent.len > MaxTextLength
  THEN [textContent EXCEPT !.len = MaxTextLength]
  ELSE textContent

----------------------------------------------------------------------------
(* Deck persistence: onFileUpload, lines 202-279 *)

\* a || b for string slots
OrElse(a, b) == IF Truthy(a) THEN a ELSE b
\* a || b for opaque card fields
OrElseField(a, b) == IF TruthyField(a) THEN a ELSE b

\* filePath.split('/').pop()?.split('.')[0] || `deck-${Date.now()}`
DeckFilename(filePath, t) ==
  OrElse(Split(Pop(Split(filePath, "/")), ".")[1],
         StrDeckPrefix \o NumberToString(t))

\* `${userId}_${filename}_${Date.now()}`
MakeDeckId(uid, filePath, t) ==
  uid \o <<"_">> \o DeckFilename(filePath, t) \o <<"_">> \o NumberToString(t)

\* the failed deck id without its suffix
MakeFailedDeckIdNoSuffix(uid, filePath, t) == MakeDeckId(uid, filePath, t)

\* `${userId}_${filename}_${Date.now()}_failed`
MakeFailedDeckId(uid, filePath, t) ==
  MakeDeckId(uid, filePath, t) \o StrFailedSuffix

\* deckData written with the status of a deck still being worked on
MakeDeckDataProcessing(e, uid, kind, aiData) ==
  [title       |-> OrElse(Pop(Split(e.name, "/")), StrUntitledDeck),
   userId      |-> uid,
   status      |-> "processing",
   total_cards |-> Len(aiData.flashcards),
   source_type |-> kind,
   model_used  |-> OrElseField(aiData.model, "gemini-1.5-pro-latest")]

\* deckData (lines 207-216); the server timestamps are set by the write
MakeDeckData(e, uid, kind, aiData) ==
  [title       |-> OrElse(Pop(Split(e.name, "/")), StrUntitledDeck),
   userId      |-> uid,
   status      |-> "completed",
   total_cards |-> Len(aiData.flashcards),
   source_type |-> kind,
   model_used  |-> OrElseField(aiData.model, "gemini-1.5-pro-latest")]

\* the document of the catch block (lines 267-274)
MakeFailedDeck(e, uid, message) ==
  [title         |-> OrElse(Pop(Split(e.name, "/")), StrFailedProcessing),
   userId        |-> uid,
   status        |-> "failed",
   error_message |-> message,
   total_cards   |-> 0]

\* cardData with the fallback id numbered from 0
CardDataZeroBased(card, index) ==
  [id          |-> OrElse(card.id, StrCardPrefix \o NumberToString(index)),
   type        |-> OrElseField(card.type, "qa"),
   question    |-> OrElseField(card.question, "No question generated"),
   answer      |-> OrElseField(card.answer, "No answer provided"),
   source_text |-> OrElseField(card.source_text, "Source text not available"),
   difficulty  |-> OrElseField(card.difficulty, "medium")]

\* cardData (lines 240-248) of the card at 0-based position index
CardData(card, index) ==
  [id          |-> OrElse(card.id, StrCardPrefix \o NumberToString(index + 1)),
   type        |-> OrElseField(card.type, "qa"),
   question    |-> OrElseField(card.question, "No question generated"),
   answer      |-> OrElseField(card.answer, "No answer provided"),
   source_text |-> OrElseField(card.source_text, "Source text not available"),
   difficulty  |-> OrElseField(card.difficulty, "medium")]

\* a loop that stops one card short
BuildBatchOffByOne(list) ==
  [n \in 1..(Len(list) - 1) |->
     [ref |-> CardData(list[n], n - 1).id, data |-> CardData(list[n], n - 1)]]

\* flashcards.forEach(... batch.set(cardRef, cardData)) (lines 238-252)
BuildBatch(list) ==
  [n \in 1..Len(list) |->
     [ref |-> CardData(list[n], n - 1).id, data |-> CardData(list[n], n - 1)]]

\* What batch.commit() leaves in a cards sub-collection: the set operations
\* are applied in order, a later one replacing an earlier one on the same
\* document.
RECURSIVE ApplyBatch(_, _)
ApplyBatch(collection, ops) ==
  IF ops = <<>> THEN collection
  ELSE ApplyBatch((ops[1].ref :> ops[1].data) @@ collection, Tail(ops))

NoCards == [id \in {} |-> id]

CardsOf(d) == IF d \in DOMAIN cards THEN cards[d] ELSE NoCards

----------------------------------------------------------------------------
(* The state machine *)

----------------------------------------------------------------------------
(* The upload widgets of the web client: components/FileUpload.tsx and      *)
(* components/AudioUpload.tsx.  Each widget keeps its React state in        *)
(* widget[w]; a click on the upload button starts a storage upload task     *)
(* whose observers (progress, error, complete) run later.                   *)

Null == "<null>"

MaxUploads == 2    \* upload tasks one widget starts

Widgets == {"FileUpload", "AudioUpload"}

\* File objects the user can pick; NoFile is files[0] of an empty FileList
NoFile == [name |-> Undefined, type |-> Undefined, size |-> NoSize]
maxSizeBytes == 50 * 1024 * 1024
Files ==
  {[name |-> FileTxt, type |-> TypeTxt, size |-> 1],
   [name |-> FileMp3, type |-> TypeMpeg, size |-> 1],
   [name |-> FileMp3, type |-> TypeMpeg, size |-> maxSizeBytes + 1],
   [name |-> FileUpperOgg, type |-> TypeMpeg4, size |-> 1],
   [name |-> FileOga, type |-> TypeOgg, size |-> 1]}

NoUser == [uid |-> Undefined]
Users  == {NoUser, [uid |-> StrU1]}

\* audioInfo: null, or the duration and size getAudioInfo resolved with
NoAudioInfo == [duration |-> Null, size |-> NoSize]

\* useState initial values of a widget
IdleWidget ==
  [file |-> NoFile, uploading |-> FALSE, progress |-> 0, error |-> Null,
   audioInfo |-> NoAudioInfo]

UploadIdle ==
  /\ user = NoUser
  /\ activeTab = "documents"
  /\ widget = [w \in Widgets |-> IdleWidget]
  /\ metadataLoads = {}
  /\ uploadTasks = [w \in Widgets |-> <<>>]


----------------------------------------------------------------------------
(* The deck page of the web client: app/deck/[deckId]/page.tsx and          *)
(* lib/ankiExport.ts.  Texts the export formats take apart or put together  *)
(* are sequences of characters.                                             *)

MaxDeckCards == 2  \* cards of the deck the page has loaded

\* Flashcards as the page reads them from decks/{deckId}/cards: a question
\* with an embedded double quote, an answer with quotes and a backslash, a
\* question with a line break and an answer with a tab; difficulty is
\* optional.
PageCard1 ==
  [id |-> <<"c", "1">>, type |-> <<"q", "a">>, question |-> <<"Q", "1", "\"", "x">>, answer |-> <<"A", "1">>,
   source_text |-> <<"S", "1">>, difficulty |-> Undefined, created_at |-> 0]
PageCard2 ==
  [id |-> <<"c", "2">>, type |-> <<"c", "l", "o", "z", "e">>, question |-> <<"Q", "2">>,
   answer |-> <<"s", "a", "y", " ", "\"", "h", "i", "\"", "\\">>, source_text |-> Undefined,
   difficulty |-> <<"h", "a", "r", "d">>, created_at |-> 1]
PageCard3 ==
  [id |-> <<"c", "3">>, type |-> <<"d", "e", "f", "i", "n", "i", "t", "i", "o", "n">>, question |-> <<"a", "\n", "b">>,
   answer |-> <<"c", "\t", "d">>, source_text |-> <<"S", "3">>, difficulty |-> <<"e", "a", "s", "y">>,
   created_at |-> 1]
\* the cards in the order of their document ids
PageCards == <<PageCard1, PageCard2, PageCard3>>

\* the card lists getDocs delivers: some of the cards, in the order of the
\* document ids
PageCardLists ==
  {LET F[k \in 0..Len(PageCards)] ==
         IF k = 0 THEN <<>>
         ELSE IF k \in picked THEN Append(F[k - 1], PageCards[k])
         ELSE F[k - 1]
   IN F[Len(PageCards)] :
     picked \in {S \in SUBSET (1..Len(PageCards)) : Cardinality(S) <= MaxDeckCards}}

\* the deck document the deckId of the URL names: a deck of the signed-in
\* user with a title as the function writes it, or a deck of another user
\* with an empty title
NoDeck == [id |-> Undefined, title |-> Undefined, userId |-> Undefined]
PageDecks ==
  {[id |-> <<"u", "1", "_", "a", "_", "0">>, title |-> FileTxt, userId |-> StrU1],
   [id |-> <<"u", "2", "_", "b", "_", "0">>, title |-> <<>>, userId |-> StrU2]}

ExportFormats == {"csv", "quizlet-csv", "quizlet-txt", "json", "txt", "anki"}

\* useState initial values of DeckDetailPage
IdleDeckPage ==
  [deck |-> NoDeck, cards |-> <<>>, loading |-> TRUE, error |-> Null,
   selectedCards |-> {}, exportFormat |-> "csv", exporting |-> FALSE]

NoExportCall == [pc |-> "idle", selectedCardData |-> <<>>, deckName |-> <<>>]

ExportIdle ==
  /\ deckPage = IdleDeckPage
  /\ exportCall = NoExportCall
  /\ ankiRequests = <<>>
  /\ ankiResponses = <<>>
  /\ downloads = <<>>
  /\ alerts = <<>>

\* useState initial values of DecksPage and of useAuth; fetches holds the
\* uids whose getDocs promise is pending, authEvents counts the deliveries
\* of onAuthStateChanged
IdleDecksPage ==
  [authLoading |-> TRUE, decks |-> {}, loading |-> TRUE, fetches |-> {},
   authEvents |-> 0]

ListIdle == decksPage = IdleDecksPage

ClientIdle == UploadIdle /\ ExportIdle /\ ListIdle

NoDeckData == [status |-> "none"]
NoExtraction ==
  [download |-> "none", buffer |-> NoPayload, parse |-> "none", text |-> NoPayload]
NoRequest  == [endpoint |-> "none", text |-> NoPayload, num_cards |-> 0]

InvocationsIdle(I, objects) ==
  /\ event \in [I -> objects]
  /\ pc = [i \in I |-> "start"]
  /\ aiRequest = [i \in I |-> NoRequest]
  /\ aiServiceResponse = [i \in I |-> NoResponse]
  /\ userId = [i \in I |-> Undefined]
  /\ fileType = [i \in I |-> Undefined]
  /\ payload = [i \in I |-> NoPayload]
  /\ deckId = [i \in I |-> <<>>]
  /\ failedDeckId = [i \in I |-> <<>>]
  /\ deckData = [i \in I |-> NoDeckData]
  /\ flashcards = [i \in I |-> <<>>]
  /\ batch = [i \in I |-> <<>>]
  /\ error = [i \in I |-> ""]
  /\ outcome = [i \in I |-> "running"]
  /\ effects = [i \in I |-> <<>>]
  /\ extraction = [i \in I |-> NoExtraction]
  /\ now = 0

InitWith(I, objects) ==
  /\ InvocationsIdle(I, objects)
  /\ decks = [d \in {} |-> NoDeckData]
  /\ cards = [d \in {} |-> NoCards]

InitFor(I) == InitWith(I, Events)

Init == InitFor({1}) /\ ClientIdle

Did(i, effect) == effects' = [effects EXCEPT ![i] = Append(@, effect)]

\* return: the invocation ends with the given log line
Return(i, line) ==
  /\ pc' = [pc EXCEPT ![i] = "done"]
  /\ outcome' = [outcome EXCEPT ![i] = line]

\* a catch block that tries the AI call once more before giving up
CatchAndRetry(i, message) ==
  /\ error' = [error EXCEPT ![i] = message]
  /\ failedDeckId' =
       [failedDeckId EXCEPT ![i] = MakeFailedDeckId(userId[i], event[i].name, now)]
  /\ pc' = [pc EXCEPT ![i] =
              IF Len(SelectSeq(effects[i], LAMBDA x : x = "aiRequest")) < 2
              THEN "aiCall" ELSE "recordFailure"]
  /\ outcome' = outcome

\* An exception reaches the outer catch (lines 258-265): the catch block
\* runs up to its await of the failed-deck write.
Catch(i, message) ==
  /\ error' = [error EXCEPT ![i] = message]
  /\ failedDeckId' =
       [failedDeckId EXCEPT ![i] = MakeFailedDeckId(userId[i], event[i].name, now)]
  /\ pc' = [pc EXCEPT ![i] = "recordFailure"]
  /\ outcome' = outcome

\* Lines 14-91: the event is parsed and validated.
Start(i) ==
  /\ pc[i] = "start"
  /\ userId' = [userId EXCEPT ![i] = ParseUserId(event[i].name)]
  /\ fileType' = [fileType EXCEPT ![i] = ParseFileType(event[i].name)]
  /\ IF Validate(event[i]) = "accepted"
     THEN /\ pc' = [pc EXCEPT ![i] = "download"]
          /\ outcome' = outcome
     ELSE Return(i, Validate(event[i]))
  /\ UNCHANGED <<event, aiRequest, aiServiceResponse, payload, deckId,
                 failedDeckId, deckData, flashcards, batch, error, effects,
                 extraction, decks, cards, now>>
  /\ UNCHANGED clientVars

\* A downloaded buffer is known by its length and, for a text file, by
\* whether it holds whitespace only; of an audio buffer only emptiness matters.
Buffers == Texts
AudioBuffers == {NoPayload, [len |-> 1, blank |-> FALSE]}

\* The invocation goes on to its next await with the given payload.
Proceed(i, next, content) ==
  /\ pc' = [pc EXCEPT ![i] = next]
  /\ outcome' = outcome
  /\ payload' = [payload EXCEPT ![i] = content]

\* Lines 127-143: the extracted text is checked and truncated.
CheckText(i, textContent) ==
  IF TextVerdict(textContent) # "ok"
  THEN Return(i, TextVerdict(textContent)) /\ payload' = payload
  ELSE Proceed(i, "aiCall", Truncate(textContent))

\* Lines 98-125 for text/plain and up to the await of pdfParse for a PDF:
\* await file.download() of a documents upload completes.
DownloadDocument(i) ==
  /\ pc[i] = "download"
  /\ fileType[i] = StrDocuments
  /\ Did(i, "download")
  /\ \/ /\ Return(i, "downloadFailed")
        /\ payload' = payload
        /\ extraction' = [extraction EXCEPT ![i].download = "failed"]
     \/ \E buffer \in Buffers :
          /\ IF buffer.len = 0
             THEN Return(i, "emptyDocument") /\ payload' = payload
             ELSE IF StartsWith(event[i].contentType, TypePdf)
             THEN Proceed(i, "pdfParse", buffer)
             ELSE CheckText(i, buffer)
          /\ extraction' = [extraction EXCEPT ![i].download = "ok",
                                              ![i].buffer = buffer]
  /\ UNCHANGED <<event, aiRequest, aiServiceResponse, userId, fileType,
                 deckId, failedDeckId, deckData, flashcards, batch, error,
                 decks, cards, now>>
  /\ UNCHANGED clientVars

\* Lines 116-143 for a PDF: await pdfParse(fileBuffer[0]) completes.
ParsePdf(i) ==
  /\ pc[i] = "pdfParse"
  /\ Did(i, "pdfParse")
  /\ \/ /\ Return(i, "extractionFailed")
        /\ payload' = payload
        /\ extraction' = [extraction EXCEPT ![i].parse = "throws"]
     \/ \E text \in Texts :
          /\ CheckText(i, text)
          /\ extraction' = [extraction EXCEPT ![i].parse = "ok", ![i].text = text]
  /\ UNCHANGED <<event, aiRequest, aiServiceResponse, userId, fileType,
                 deckId, failedDeckId, deckData, flashcards, batch, error,
                 decks, cards, now>>
  /\ UNCHANGED clientVars

\* Lines 156-169: await file.download() of an audio upload completes; the
\* await sits in the outer try with no catch of its own.
DownloadAudio(i) ==
  /\ pc[i] = "download"
  /\ fileType[i] = StrAudio
  /\ Did(i, "download")
  /\ \/ /\ Catch(i, "download failed")
        /\ payload' = payload
        /\ extraction' = [extraction EXCEPT ![i].download = "failed"]
     \/ \E buffer \in AudioBuffers :
          /\ Proceed(i, "aiCall", buffer)
          /\ extraction' = [extraction EXCEPT ![i].download = "ok",
                                              ![i].buffer = buffer]
          /\ UNCHANGED <<error, failedDeckId>>
  /\ UNCHANGED <<event, aiRequest, aiServiceResponse, userId, fileType,
                 deckId, deckData, flashcards, batch, decks, cards, now>>
  /\ UNCHANGED clientVars

\* The request of lines 146-149 (documents) or 171-177 (audio)
MakeRequest(kind, content) ==
  IF kind = StrDocuments
  THEN [endpoint |-> "/process", text |-> content, num_cards |-> 15]
  ELSE [endpoint |-> "/process-audio", text |-> content, num_cards |-> 12]

\* aiData passes the check of line 190
ResponseValid(aiData) ==
  aiData.success = "true" /\ aiData.cardsShape = "list"

\* the empty list is not told apart
NoFlashcardsUnchecked(list) == FALSE

\* flashcards.length === 0 (line 197)
NoFlashcards(list) == Len(list) = 0

\* Lines 146-230: the request is sent, its await completes, and the answer
\* is handled up to the await of the deck write.  axios rejects on a network
\* failure and on a non-2xx status; reading a field of a null body throws.
AiCall(i) ==
  /\ pc[i] = "aiCall"
  /\ Did(i, "aiRequest")
  /\ aiRequest' = [aiRequest EXCEPT ![i] = MakeRequest(fileType[i], payload[i])]
  /\ \E answer \in AiAnswersFor(event[i], MakeRequest(fileType[i], payload[i])) :
       /\ aiServiceResponse' = [aiServiceResponse EXCEPT ![i] = answer]
       /\ IF answer.transport # "ok" THEN
            /\ Catch(i, answer.transport)
            /\ UNCHANGED <<deckId, deckData, flashcards>>
          ELSE IF answer.body = "null" THEN
            /\ Catch(i, "TypeError")
            /\ UNCHANGED <<deckId, deckData, flashcards>>
          ELSE IF ~ResponseValid(answer) THEN
            /\ Return(i, "invalidResponse")
            /\ UNCHANGED <<deckId, deckData, flashcards, error, failedDeckId>>
          ELSE IF NoFlashcards(answer.flashcards) THEN
            /\ Return(i, "noFlashcards")
            /\ UNCHANGED <<deckId, deckData, flashcards, error, failedDeckId>>
          ELSE
            /\ flashcards' = [flashcards EXCEPT ![i] = answer.flashcards]
            /\ deckId' = [deckId EXCEPT ![i] =
                            MakeDeckId(userId[i], event[i].name, now)]
            /\ deckData' = [deckData EXCEPT ![i] =
                              MakeDeckData(event[i], userId[i], fileType[i], answer)]
            /\ pc' = [pc EXCEPT ![i] = "writeDeck"]
            /\ UNCHANGED <<outcome, error, failedDeckId>>
  /\ UNCHANGED <<event, userId, fileType, payload, batch, extraction,
                 decks, cards, now>>
  /\ UNCHANGED clientVars

\* Lines 233-252: await db.collection('decks').doc(deckId).set(deckData)
\* completes; on success the batch is filled up to the await of its commit.
WriteDeck(i) ==
  /\ pc[i] = "writeDeck"
  /\ Did(i, "deckSet")
  /\ \/ /\ decks' = (deckId[i] :> deckData[i]) @@ decks
        /\ batch' = [batch EXCEPT ![i] = BuildBatch(flashcards[i])]
        /\ pc' = [pc EXCEPT ![i] = "commitBatch"]
        /\ UNCHANGED <<outcome, error, failedDeckId>>
     \/ /\ Catch(i, "deck write failed")
        /\ UNCHANGED <<decks, batch>>
  /\ UNCHANGED <<event, aiRequest, aiServiceResponse, userId, fileType,
                 payload, deckId, deckData, flashcards, extraction, cards, now>>
  /\ UNCHANGED clientVars

\* a batch commit that stores its first write only
CommitBatchInPart(i) ==
  /\ pc[i] = "commitBatch"
  /\ Did(i, "batchCommit")
  /\ \/ /\ cards' = (deckId[i] :>
                       ApplyBatch(CardsOf(deckId[i]), SubSeq(batch[i], 1, 1))) @@ cards
        /\ Return(i, "saved")
        /\ UNCHANGED <<error, failedDeckId>>
     \/ /\ Catch(i, "batch commit failed")
        /\ cards' = cards
  /\ UNCHANGED <<event, aiRequest, aiServiceResponse, userId, fileType,
                 payload, deckId, deckData, flashcards, batch, extraction,
                 decks, now>>
  /\ UNCHANGED clientVars

\* Lines 254-256: await batch.commit() completes.
CommitBatch(i) ==
  /\ pc[i] = "commitBatch"
  /\ Did(i, "batchCommit")
  /\ \/ /\ cards' = (deckId[i] :> ApplyBatch(CardsOf(deckId[i]), batch[i])) @@ cards
        /\ Return(i, "saved")
        /\ UNCHANGED <<error, failedDeckId>>
     \/ /\ Catch(i, "batch commit failed")
        /\ cards' = cards
  /\ UNCHANGED <<event, aiRequest, aiServiceResponse, userId, fileType,
                 payload, deckId, deckData, flashcards, batch, extraction,
                 decks, now>>
  /\ UNCHANGED clientVars

\* the failed-deck write fails but its document is stored all the same
RecordFailureHalfWritten(i) ==
  /\ pc[i] = "recordFailure"
  /\ Did(i, "failedDeckSet")
  /\ decks' = (failedDeckId[i] :>
                 MakeFailedDeck(event[i], userId[i], error[i])) @@ decks
  /\ \/ Return(i, "failedDeckCreated")
     \/ Return(i, "failedDeckNotCreated")
  /\ UNCHANGED <<event, aiRequest, aiServiceResponse, userId, fileType,
                 payload, deckId, failedDeckId, deckData, flashcards, batch,
                 error, extraction, cards, now>>
  /\ UNCHANGED clientVars

\* Lines 267-279: the await of the failed-deck write completes.
RecordFailure(i) ==
  /\ pc[i] = "recordFailure"
  /\ Did(i, "failedDeckSet")
  /\ \/ /\ decks' = (failedDeckId[i] :>
                       MakeFailedDeck(event[i], userId[i], error[i])) @@ decks
        /\ Return(i, "failedDeckCreated")
     \/ /\ decks' = decks
        /\ Return(i, "failedDeckNotCreated")
  /\ UNCHANGED <<event, aiRequest, aiServiceResponse, userId, fileType,
                 payload, deckId, failedDeckId, deckData, flashcards, batch,
                 error, extraction, cards, now>>
  /\ UNCHANGED clientVars

\* Time passes while an invocation is suspended in an await of the try block.
Tick ==
  /\ now < MaxTime
  /\ \E i \in DOMAIN pc : pc[i] \notin {"start", "done"}
  /\ now' = now + 1
  /\ UNCHANGED <<event, aiRequest, aiServiceResponse, pc, userId, fileType,
                 payload, deckId, failedDeckId, deckData, flashcards, batch,
                 error, outcome, effects, extraction, decks, cards>>
  /\ UNCHANGED clientVars

Next ==
  \/ \E i \in DOMAIN pc : Start(i)
  \/ \E i \in DOMAIN pc : DownloadDocument(i)
  \/ \E i \in DOMAIN pc : ParsePdf(i)
  \/ \E i \in DOMAIN pc : DownloadAudio(i)
  \/ \E i \in DOMAIN pc : AiCall(i)
  \/ \E i \in DOMAIN pc : WriteDeck(i)
  \/ \E i \in DOMAIN pc : CommitBatch(i)
  \/ \E i \in DOMAIN pc : RecordFailure(i)
  \/ Tick

Spec == Init /\ [][Next]_vars

----------------------------------------------------------------------------
(* Two invocations of onFileUpload, interleaved at their awaits *)

\* uploads of one user whose filenames differ: a PDF, a text file of the same
\* stem, and an audio file
ConcurrentObjects ==
  {[name |-> Join(<<StrUploads, StrDocuments, StrU1, FileLowerPdf>>, "/"),
    contentType |-> TypePdf, size |-> MaxDocumentSize],
   [name |-> Join(<<StrUploads, StrDocuments, StrU1, FileTwoDots>>, "/"),
    contentType |-> TypeTxt, size |-> MaxDocumentSize],
   [name |-> Join(<<StrUploads, StrAudio, StrU1, FileUpperOgg>>, "/"),
    contentType |-> TypeOgg, size |-> MaxDocumentSize]}

ConcurrentInit ==
  /\ InitWith({1, 2}, ConcurrentObjects)
  /\ event[1].name # event[2].name
  /\ ClientIdle

ConcurrentSpec == ConcurrentInit /\ [][Next]_vars

----------------------------------------------------------------------------
(* Properties *)

----------------------------------------------------------------------------
(* The upload widgets *)

\* UploadTabs renders FileUpload under the documents tab, AudioUpload under
\* the audio tab
WidgetOf(tab) == IF tab = "documents" THEN "FileUpload" ELSE "AudioUpload"
KindOf(w) == IF w = "FileUpload" THEN StrDocuments ELSE StrAudio

Mounted(w) == w = WidgetOf(activeTab)

\* AudioUpload.validateFile: null, or the message of the first failed test
allowedTypes ==
  {TypeMp3, TypeWav, TypeM4a, TypeFlac, TypeAac, TypeOgg, TypeMpeg}
validateFile(f) ==
  IF f.type \notin allowedTypes THEN "Unsupported file type"
  ELSE IF f.size > maxSizeBytes THEN "File too large"
  ELSE Null

\* the upload button's disabled attribute with the uploading flag left out
UploadButtonDisabledWhenNoFile(w) == widget[w].file = NoFile

\* disabled={!file || uploading}
UploadButtonDisabled(w) == widget[w].file = NoFile \/ widget[w].uploading

SetWidget(w, state) == widget' = [widget EXCEPT ![w] = state]

\* onAuthStateChanged delivers a sign-in or a sign-out
AuthStateChanged(u) ==
  /\ u # user
  /\ user' = u
  /\ UNCHANGED <<activeTab, widget, metadataLoads, uploadTasks>>
  /\ UNCHANGED <<functionVars, exportVars, listVars>>

\* A click on the other tab unmounts the widget and mounts a fresh instance
\* of the other one; callbacks of the unmounted instance no longer reach any
\* state, so the instance is dropped together with its tasks.
SwitchTab(tab) ==
  /\ tab # activeTab
  /\ activeTab' = tab
  /\ widget' = [w \in Widgets |-> IdleWidget]
  /\ metadataLoads' = {}
  /\ uploadTasks' = [w \in Widgets |-> <<>>]
  /\ UNCHANGED user
  /\ UNCHANGED <<functionVars, exportVars, listVars>>

\* FileUpload.handleFileChange: the picked file, or none when the dialog
\* was cancelled, replaces the selection.
FileUploadHandleFileChange(f) ==
  /\ Mounted("FileUpload")
  /\ SetWidget("FileUpload",
               [widget["FileUpload"] EXCEPT !.file = f, !.error = Null])
  /\ UNCHANGED <<user, activeTab, metadataLoads, uploadTasks>>
  /\ UNCHANGED <<functionVars, exportVars, listVars>>

\* AudioUpload.handleFileChange / handleDrop -> handleFileSelect, up to its
\* await of getAudioInfo
HandleFileSelect(f) ==
  /\ Mounted("AudioUpload")
  /\ IF validateFile(f) # Null
     THEN /\ SetWidget("AudioUpload",
                       [widget["AudioUpload"] EXCEPT !.error = validateFile(f)])
          /\ UNCHANGED metadataLoads
     ELSE /\ SetWidget("AudioUpload",
                       [widget["AudioUpload"] EXCEPT !.file = f, !.error = Null])
          /\ metadataLoads' = metadataLoads \cup {f}
  /\ UNCHANGED <<user, activeTab, uploadTasks>>
  /\ UNCHANGED <<functionVars, exportVars, listVars>>

\* getAudioInfo resolves (metadata loaded, or the audio element failed):
\* handleFileSelect resumes and sets audioInfo
AudioInfoLoaded(f, duration) ==
  /\ Mounted("AudioUpload")
  /\ f \in metadataLoads
  /\ metadataLoads' = metadataLoads \ {f}
  /\ SetWidget("AudioUpload",
               [widget["AudioUpload"] EXCEPT
                  !.audioInfo = [duration |-> duration, size |-> f.size]])
  /\ UNCHANGED <<user, activeTab, uploadTasks>>
  /\ UNCHANGED <<functionVars, exportVars, listVars>>

\* AudioUpload.handleRemoveFile; its button is rendered when file && audioInfo
HandleRemoveFile ==
  /\ Mounted("AudioUpload")
  /\ widget["AudioUpload"].file # NoFile
  /\ widget["AudioUpload"].audioInfo # NoAudioInfo
  /\ SetWidget("AudioUpload",
               [widget["AudioUpload"] EXCEPT !.file = NoFile,
                                             !.audioInfo = NoAudioInfo,
                                             !.error = Null])
  /\ UNCHANGED <<user, activeTab, metadataLoads, uploadTasks>>
  /\ UNCHANGED <<functionVars, exportVars, listVars>>

\* handleUpload of either widget, run by a click on the enabled button
HandleUpload(w) ==
  /\ Mounted(w)
  /\ ~UploadButtonDisabled(w)
  /\ Len(uploadTasks[w]) < MaxUploads
  /\ IF widget[w].file = NoFile
     THEN /\ SetWidget(w, [widget[w] EXCEPT !.error = "Please select a file first!"])
          /\ UNCHANGED uploadTasks
     ELSE IF user = NoUser
     THEN /\ SetWidget(w, [widget[w] EXCEPT
                             !.error = "You must be logged in to upload files!"])
          /\ UNCHANGED uploadTasks
     ELSE /\ SetWidget(w, [widget[w] EXCEPT !.uploading = TRUE, !.error = Null])
          /\ uploadTasks' =
               [uploadTasks EXCEPT ![w] = Append(@,
                  [ref   |-> Join(<<StrUploads, KindOf(w), user.uid,
                                    widget[w].file.name>>, "/"),
                   file  |-> widget[w].file,
                   state |-> "running"])]
  /\ UNCHANGED <<user, activeTab, metadataLoads>>
  /\ UNCHANGED <<functionVars, exportVars, listVars>>

SetTask(w, k, state) ==
  uploadTasks' = [uploadTasks EXCEPT ![w][k].state = state]

ProgressSteps == {0, 50, 100}

\* the state_changed observer of a running task
UploadProgress(w, k, percent) ==
  /\ Mounted(w)
  /\ uploadTasks[w][k].state = "running"
  /\ SetWidget(w, [widget[w] EXCEPT !.progress = percent])
  /\ UNCHANGED <<user, activeTab, metadataLoads, uploadTasks>>
  /\ UNCHANGED <<functionVars, exportVars, listVars>>

\* the error observer: the task has failed
UploadError(w, k) ==
  /\ Mounted(w)
  /\ uploadTasks[w][k].state = "running"
  /\ SetTask(w, k, "error")
  /\ SetWidget(w, [widget[w] EXCEPT !.error = "Upload failed. Please try again.",
                                    !.uploading = FALSE])
  /\ UNCHANGED <<user, activeTab, metadataLoads>>
  /\ UNCHANGED <<functionVars, exportVars, listVars>>

\* the complete observer: the task has ended and getDownloadURL is called
UploadComplete(w, k) ==
  /\ Mounted(w)
  /\ uploadTasks[w][k].state = "running"
  /\ SetTask(w, k, "complete")
  /\ UNCHANGED <<user, activeTab, widget, metadataLoads>>
  /\ UNCHANGED <<functionVars, exportVars, listVars>>

\* getDownloadURL resolves: the then-callback resets the widget
DownloadUrlResolved(w, k) ==
  /\ Mounted(w)
  /\ uploadTasks[w][k].state = "complete"
  /\ SetTask(w, k, "done")
  /\ SetWidget(w, IF w = "FileUpload"
                  THEN [widget[w] EXCEPT !.uploading = FALSE, !.file = NoFile]
                  ELSE [widget[w] EXCEPT !.uploading = FALSE, !.file = NoFile,
                                         !.audioInfo = NoAudioInfo, !.progress = 0])
  /\ UNCHANGED <<user, activeTab, metadataLoads>>
  /\ UNCHANGED <<functionVars, exportVars, listVars>>

\* getDownloadURL rejects: there is no catch, nothing is reset
DownloadUrlRejected(w, k) ==
  /\ Mounted(w)
  /\ uploadTasks[w][k].state = "complete"
  /\ SetTask(w, k, "urlRejected")
  /\ UNCHANGED <<user, activeTab, widget, metadataLoads>>
  /\ UNCHANGED <<functionVars, exportVars, listVars>>

UploadInit == InitFor({}) /\ ClientIdle

UploadNext ==
  \/ \E u \in Users : AuthStateChanged(u)
  \/ \E tab \in {"documents", "audio"} : SwitchTab(tab)
  \/ \E f \in Files \cup {NoFile} : FileUploadHandleFileChange(f)
  \/ \E f \in Files : HandleFileSelect(f)
  \/ \E f \in Files : \E duration \in {"Unknown", "0:01"} :
       AudioInfoLoaded(f, duration)
  \/ HandleRemoveFile
  \/ \E w \in Widgets : HandleUpload(w)
  \/ \E w \in Widgets : \E k \in DOMAIN uploadTasks[w] :
       \E percent \in ProgressSteps : UploadProgress(w, k, percent)
  \/ \E w \in Widgets : \E k \in DOMAIN uploadTasks[w] : UploadError(w, k)
  \/ \E w \in Widgets : \E k \in DOMAIN uploadTasks[w] : UploadComplete(w, k)
  \/ \E w \in Widgets : \E k \in DOMAIN uploadTasks[w] : DownloadUrlResolved(w, k)
  \/ \E w \in Widgets : \E k \in DOMAIN uploadTasks[w] : DownloadUrlRejected(w, k)

UploadSpec == UploadInit /\ [][UploadNext]_vars

\* A started transfer ends, in failure or in completion, and the promise of
\* getDownloadURL settles, resolved or rejected.
TaskSettles(w) ==
  \E k \in DOMAIN uploadTasks[w] : UploadError(w, k) \/ UploadComplete(w, k)
UrlSettles(w) ==
  \E k \in DOMAIN uploadTasks[w] :
    DownloadUrlResolved(w, k) \/ DownloadUrlRejected(w, k)

UploadFairSpec ==
  /\ UploadSpec
  /\ \A w \in Widgets : WF_vars(TaskSettles(w)) /\ WF_vars(UrlSettles(w))

----------------------------------------------------------------------------
(* The deck page: text building *)

\* String.prototype.replace(/ch/g, repl)
RECURSIVE ReplaceAll(_, _, _)
ReplaceAll(s, ch, repl) ==
  IF s = <<>> THEN <<>>
  ELSE (IF Head(s) = ch THEN repl ELSE <<Head(s)>>)
       \o ReplaceAll(Tail(s), ch, repl)

\* Array.prototype.join with a separator of any length
RECURSIVE JoinStrings(_, _)
JoinStrings(parts, sep) ==
  IF parts = <<>> THEN <<>>
  ELSE IF Len(parts) = 1 THEN parts[1]
  ELSE parts[1] \o sep \o JoinStrings(Tail(parts), sep)

\* Date.prototype.toISOString of a time within the first ten milliseconds
ToISOString(t) == <<"1", "9", "7", "0", "-", "0", "1", "-", "0", "1", "T", "0", "0", ":", "0", "0", ":", "0", "0", ".", "0", "0">> \o NumberToString(t) \o <<"Z">>

\* JavaScript values handed to JSON.stringify
JStr(s)     == <<"str", s>>
JNum(n)     == <<"num", n>>
JArr(items) == <<"arr", items>>
JObj(props) == <<"obj", props>>
JUndefined  == <<"undefined", <<>>>>

JOptional(s) == IF s = Undefined THEN JUndefined ELSE JStr(s)

\* the string as it is, nothing escaped
JsonEscapeNothing(s) == s

\* the escapes JSON.stringify applies inside a string literal
RECURSIVE JsonEscape(_)
JsonEscape(s) ==
  IF s = <<>> THEN <<>>
  ELSE (CASE Head(s) = "\"" -> <<"\\", "\"">>
          [] Head(s) = "\\" -> <<"\\", "\\">>
          [] Head(s) = "\n" -> <<"\\", "n">>
          [] Head(s) = "\t" -> <<"\\", "t">>
          [] OTHER -> <<Head(s)>>)
       \o JsonEscape(Tail(s))

\* JSON.stringify(value, null, 2) at the given indentation; properties whose
\* value is undefined are left out
RECURSIVE JsonStringify(_, _)
JsonStringify(value, indent) ==
  LET inner == indent \o <<" ", " ">> IN
  CASE value[1] = "str" -> <<"\"">> \o JsonEscape(value[2]) \o <<"\"">>
    [] value[1] = "num" -> NumberToString(value[2])
    [] value[1] = "arr" ->
         IF value[2] = <<>> THEN <<"[", "]">>
         ELSE <<"[", "\n">>
              \o JoinStrings([k \in 1..Len(value[2]) |->
                                inner \o JsonStringify(value[2][k], inner)],
                             <<",", "\n">>)
              \o <<"\n">> \o indent \o <<"]">>
    [] value[1] = "obj" ->
         LET props == SelectSeq(value[2], LAMBDA pr : pr[2][1] # "undefined") IN
         IF props = <<>> THEN <<"{", "}">>
         ELSE <<"{", "\n">>
              \o JoinStrings([k \in 1..Len(props) |->
                                inner \o <<"\"">> \o JsonEscape(props[k][1])
                                \o <<"\"", ":", " ">>
                                \o JsonStringify(props[k][2], inner)],
                             <<",", "\n">>)
              \o <<"\n">> \o indent \o <<"}">>

\* a card of the page's state as JSON.stringify sees it; created_at is a Date
CardValue(card) ==
  JObj(<< <<<<"i", "d">>, JStr(card.id)>>,
          <<<<"t", "y", "p", "e">>, JStr(card.type)>>,
          <<<<"q", "u", "e", "s", "t", "i", "o", "n">>, JStr(card.question)>>,
          <<<<"a", "n", "s", "w", "e", "r">>, JStr(card.answer)>>,
          <<<<"s", "o", "u", "r", "c", "e", "_", "t", "e", "x", "t">>, JOptional(card.source_text)>>,
          <<<<"d", "i", "f", "f", "i", "c", "u", "l", "t", "y">>, JOptional(card.difficulty)>>,
          <<<<"c", "r", "e", "a", "t", "e", "d", "_", "a", "t">>, JStr(ToISOString(card.created_at))>> >>)

\* deck?.title || fallback
TitleOr(deck, fallback) == IF Truthy(deck.title) THEN deck.title ELSE fallback

\* the question or answer as it is, quotes not doubled
QuoteKept(s) == s

QuoteDoubled(s) == ReplaceAll(s, "\"", <<"\"", "\"">>)

CsvRow(card, index) ==
  <<"\"">> \o QuoteDoubled(card.question) \o <<"\"", ",", "\"">>
  \o QuoteDoubled(card.answer) \o <<"\"", ",", "\"">>
  \o card.type \o <<"\"", ",", "\"">>
  \o (IF Truthy(card.difficulty) THEN card.difficulty ELSE <<"m", "e", "d", "i", "u", "m">>)
  \o <<"\"">>

QuizletCsvRow(card, index) ==
  <<"\"">> \o QuoteDoubled(card.question) \o <<"\"", ",", "\"">>
  \o QuoteDoubled(card.answer) \o <<"\"">>

QuizletTxtRow(card, index) == card.question \o <<"\t">> \o card.answer

TxtRow(card, index) ==
  <<"C", "a", "r", "d", " ">> \o NumberToString(index) \o <<":", "\n", "Q", ":", " ">> \o card.question
  \o <<"\n", "A", ":", " ">> \o card.answer \o <<"\n", "-", "-", "-", "\n">>

\* Lines 113-165: the file handleExport builds for a format other than anki
ExportFile(format, deck, selectedCardData, time) ==
  CASE format = "csv" ->
         [download |-> TitleOr(deck, <<"f", "l", "a", "s", "h", "c", "a", "r", "d", "s">>) \o <<".", "c", "s", "v">>,
          type     |-> "text/csv",
          content  |-> <<"F", "r", "o", "n", "t", ",", "B", "a", "c", "k", ",", "T", "y", "p", "e", ",", "D", "i", "f", "f", "i", "c", "u", "l", "t", "y", "\n">>
                       \o JoinStrings([k \in 1..Len(selectedCardData) |-> CsvRow(selectedCardData[k], k)], <<"\n">>)]
    [] format = "quizlet-csv" ->
         [download |-> TitleOr(deck, <<"f", "l", "a", "s", "h", "c", "a", "r", "d", "s">>) \o <<".", "c", "s", "v">>,
          type     |-> "text/csv",
          content  |-> <<"T", "e", "r", "m", ",", "D", "e", "f", "i", "n", "i", "t", "i", "o", "n", "\n">>
                       \o JoinStrings([k \in 1..Len(selectedCardData) |-> QuizletCsvRow(selectedCardData[k], k)],
                                      <<"\n">>)]
    [] format = "quizlet-txt" ->
         [download |-> TitleOr(deck, <<"f", "l", "a", "s", "h", "c", "a", "r", "d", "s">>) \o <<".", "t", "x", "t">>,
          type     |-> "text/plain",
          content  |-> JoinStrings([k \in 1..Len(selectedCardData) |-> QuizletTxtRow(selectedCardData[k], k)],
                                   <<"\n">>)]
    [] format = "json" ->
         [download |-> TitleOr(deck, <<"f", "l", "a", "s", "h", "c", "a", "r", "d", "s">>) \o <<".", "j", "s", "o", "n">>,
          type     |-> "application/json",
          content  |->
            JsonStringify(
              JObj(<< <<<<"d", "e", "c", "k">>,
                        JObj(<< <<<<"t", "i", "t", "l", "e">>, JOptional(deck.title)>>,
                                <<<<"t", "o", "t", "a", "l", "_", "c", "a", "r", "d", "s">>,
                                  JNum(Len(selectedCardData))>>,
                                <<<<"e", "x", "p", "o", "r", "t", "e", "d", "_", "a", "t">>,
                                  JStr(ToISOString(time))>> >>)>>,
                      <<<<"c", "a", "r", "d", "s">>,
                        JArr([k \in 1..Len(selectedCardData) |->
                                CardValue(selectedCardData[k])])>> >>),
              <<>>)]
    [] format = "txt" ->
         [download |-> TitleOr(deck, <<"f", "l", "a", "s", "h", "c", "a", "r", "d", "s">>) \o <<".", "t", "x", "t">>,
          type     |-> "text/plain",
          content  |-> JoinStrings([k \in 1..Len(selectedCardData) |-> TxtRow(selectedCardData[k], k)], <<"\n">>)]

----------------------------------------------------------------------------
(* The deck page: state machine *)

MaxExports == 1    \* downloads and alerts the page puts out

\* the visitor acts on the page until it has put out MaxExports downloads
\* and alerts
Visiting == Len(downloads) + Len(alerts) < MaxExports

\* window.atob: the bytes a base64 text stands for, or a thrown
\* InvalidCharacterError.  atob(undefined) decodes the text "undefined".
Base64Alphabet ==
  <<"A", "B", "C", "D", "E", "F", "G", "H", "I", "J", "K", "L", "M", "N", "O", "P", "Q", "R", "S", "T", "U", "V", "W", "X", "Y", "Z", "a", "b", "c", "d", "e", "f", "g", "h", "i", "j", "k", "l", "m", "n", "o", "p", "q", "r", "s", "t", "u", "v", "w", "x", "y", "z", "0", "1", "2", "3", "4", "5", "6", "7", "8", "9", "+", "/">>
Base64Index(c) == (CHOOSE i \in 1..Len(Base64Alphabet) : Base64Alphabet[i] = c) - 1

StripPadding(s) ==
  IF Len(s) > 0 /\ Len(s) % 4 = 0 /\ s[Len(s)] = "="
  THEN IF s[Len(s) - 1] = "=" THEN SubSeq(s, 1, Len(s) - 2)
       ELSE SubSeq(s, 1, Len(s) - 1)
  ELSE s

RECURSIVE DecodeBase64(_)
DecodeBase64(s) ==
  IF Len(s) >= 4
  THEN LET n == Base64Index(s[1]) * 262144 + Base64Index(s[2]) * 4096
                + Base64Index(s[3]) * 64 + Base64Index(s[4])
       IN <<n \div 65536, (n \div 256) % 256, n % 256>>
          \o DecodeBase64(SubSeq(s, 5, Len(s)))
  ELSE IF Len(s) = 3
  THEN LET n == Base64Index(s[1]) * 4096 + Base64Index(s[2]) * 64
                + Base64Index(s[3])
       IN <<n \div 1024, (n \div 4) % 256>>
  ELSE IF Len(s) = 2
  THEN <<(Base64Index(s[1]) * 64 + Base64Index(s[2])) \div 16>>
  ELSE <<>>

Atob(data) ==
  LET text == IF data = Undefined THEN <<"u", "n", "d", "e", "f", "i", "n", "e", "d">> ELSE data
      s    == StripPadding(text)
  IN IF Len(s) % 4 = 1
        \/ \E k \in 1..Len(s) :
             s[k] \notin {Base64Alphabet[i] : i \in 1..Len(Base64Alphabet)}
     THEN [throws |-> TRUE, bytes |-> <<>>]
     ELSE [throws |-> FALSE, bytes |-> DecodeBase64(s)]

\* the export controls are part of the page only once the deck is loaded
ControlsRendered ==
  /\ ~deckPage.loading
  /\ deckPage.error = Null
  /\ deckPage.deck # NoDeck

CardIdsOf(list) == {list[k].id : k \in 1..Len(list)}

\* Lines 26-74: the effect's fetchDeckAndCards, from setLoading(true) to its
\* end: the deck is missing, a read throws, or deck and cards are loaded and
\* every card is selected.
FetchDeckAndCards ==
  /\ user # NoUser
  /\ deckPage.loading
  /\ deckPage.error = Null
  /\ \/ deckPage' = [deckPage EXCEPT !.error = "Deck not found"]
     \/ deckPage' = [deckPage EXCEPT !.error = "Failed to load deck",
                                     !.loading = FALSE]
     \/ \E deck \in PageDecks :
          deckPage' = [deckPage EXCEPT !.deck = deck,
                                       !.error = "Failed to load deck",
                                       !.loading = FALSE]
     \/ \E deck \in PageDecks, list \in PageCardLists :
          deckPage' = [deckPage EXCEPT !.deck = deck,
                                       !.cards = list,
                                       !.selectedCards = CardIdsOf(list),
                                       !.loading = FALSE]
  /\ UNCHANGED <<exportCall, ankiRequests, ankiResponses, downloads, alerts>>
  /\ UNCHANGED <<functionVars, uploadVars, listVars>>

\* Lines 76-84
HandleCardToggle(cardId) ==
  /\ ControlsRendered
  /\ Visiting
  /\ cardId \in CardIdsOf(deckPage.cards)
  /\ deckPage' = [deckPage EXCEPT !.selectedCards =
                    IF cardId \in @ THEN @ \ {cardId} ELSE @ \cup {cardId}]
  /\ UNCHANGED <<exportCall, ankiRequests, ankiResponses, downloads, alerts>>
  /\ UNCHANGED <<functionVars, uploadVars, listVars>>

\* Lines 86-92
HandleSelectAll ==
  /\ ControlsRendered
  /\ Visiting
  /\ deckPage' = [deckPage EXCEPT !.selectedCards =
                    IF Cardinality(@) = Len(deckPage.cards) THEN {}
                    ELSE CardIdsOf(deckPage.cards)]
  /\ UNCHANGED <<exportCall, ankiRequests, ankiResponses, downloads, alerts>>
  /\ UNCHANGED <<functionVars, uploadVars, listVars>>

\* Line 258: the format select
SetExportFormat(format) ==
  /\ ControlsRendered
  /\ Visiting
  /\ format # deckPage.exportFormat
  /\ deckPage' = [deckPage EXCEPT !.exportFormat = format]
  /\ UNCHANGED <<exportCall, ankiRequests, ankiResponses, downloads, alerts>>
  /\ UNCHANGED <<functionVars, uploadVars, listVars>>

\* the export button's disabled attribute with the exporting flag left out
ExportButtonDisabledWhenNoneSelected == deckPage.selectedCards = {}

\* disabled={selectedCards.size === 0 || exporting}
ExportButtonDisabled == deckPage.selectedCards = {} \/ deckPage.exporting

\* the whole card list of the deck, whatever is selected
SelectedCardDataIgnoringSelection == deckPage.cards

\* cards.filter(card => selectedCards.has(card.id))
SelectedCardData ==
  SelectSeq(deckPage.cards, LAMBDA card : card.id \in deckPage.selectedCards)

\* Lines 94-182 up to the first await: handleExport run by a click on the
\* enabled button.  A format other than anki is built and downloaded within
\* the click; anki sends the request of exportToAnki (lines 16-32).
HandleExport(time) ==
  /\ ControlsRendered
  /\ ~ExportButtonDisabled
  /\ Visiting
  /\ IF Len(SelectedCardData) = 0
     THEN /\ alerts' = Append(alerts, <<"P", "l", "e", "a", "s", "e", " ", "s", "e", "l", "e", "c", "t", " ", "a", "t", " ", "l", "e", "a", "s", "t", " ", "o", "n", "e", " ", "c", "a", "r", "d", " ", "t", "o", " ", "e", "x", "p", "o", "r", "t">>)
          /\ UNCHANGED <<deckPage, exportCall, ankiRequests, ankiResponses, downloads>>
     ELSE IF deckPage.exportFormat = "anki"
     THEN /\ deckPage' = [deckPage EXCEPT !.exporting = TRUE]
          /\ exportCall' =
               [pc |-> "fetch",
                selectedCardData |-> SelectedCardData,
                deckName |-> TitleOr(deckPage.deck, <<"F", "l", "a", "s", "h", "G", "e", "n", " ", "E", "x", "p", "o", "r", "t">>)]
          /\ ankiRequests' =
               Append(ankiRequests,
                      [url |-> "/export-anki", method |-> "POST",
                       flashcards |-> SelectedCardData,
                       deck_name |-> TitleOr(deckPage.deck, <<"F", "l", "a", "s", "h", "G", "e", "n", " ", "E", "x", "p", "o", "r", "t">>)])
          /\ UNCHANGED <<ankiResponses, downloads, alerts>>
     ELSE /\ downloads' =
               Append(downloads,
                      ExportFile(deckPage.exportFormat, deckPage.deck,
                                 SelectedCardData,
                                 IF deckPage.exportFormat = "json" THEN time ELSE 0))
          /\ deckPage' = [deckPage EXCEPT !.exporting = FALSE]
          /\ UNCHANGED <<exportCall, ankiRequests, ankiResponses, alerts>>
  /\ UNCHANGED <<functionVars, uploadVars, listVars>>

\* the catch of handleExport left out: the call ends without a message
ExportFailedSilently ==
  /\ deckPage' = [deckPage EXCEPT !.exporting = FALSE]
  /\ exportCall' = NoExportCall
  /\ UNCHANGED <<ankiRequests, downloads, alerts>>

\* Lines 176-181: the catch and finally of handleExport
ExportFailed ==
  /\ alerts' = Append(alerts, <<"E", "x", "p", "o", "r", "t", " ", "f", "a", "i", "l", "e", "d", ".", " ", "P", "l", "e", "a", "s", "e", " ", "t", "r", "y", " ", "a", "g", "a", "i", "n", ".">>)
  /\ deckPage' = [deckPage EXCEPT !.exporting = FALSE]
  /\ exportCall' = NoExportCall
  /\ UNCHANGED <<ankiRequests, downloads>>

\* no body has been read
NoResult == [success |-> FALSE, filename |-> Undefined, data |-> Undefined]

\* exportToAnki lines 23-36: fetch rejects, or resolves with a status
AnkiFetchSettled(outcomeOfFetch) ==
  /\ exportCall.pc = "fetch"
  /\ ankiResponses' =
       Append(ankiResponses,
              [fetch |-> outcomeOfFetch, parsed |-> FALSE, result |-> NoResult])
  /\ IF outcomeOfFetch = "ok"
     THEN /\ exportCall' = [exportCall EXCEPT !.pc = "json"]
          /\ UNCHANGED <<deckPage, ankiRequests, downloads, alerts>>
     ELSE ExportFailed
  /\ UNCHANGED <<functionVars, uploadVars, listVars>>

\* the bodies the service answers with
AnkiResults ==
  {[success |-> TRUE,  filename |-> <<"d", "e", "c", "k", ".", "a", "p", "k", "g">>, data |-> <<"Q", "U", "J", "D">>],
   [success |-> TRUE,  filename |-> <<"d", "e", "c", "k", ".", "a", "p", "k", "g">>, data |-> <<"Q", "Q", "=", "=">>],
   [success |-> TRUE,  filename |-> <<"d", "e", "c", "k", ".", "a", "p", "k", "g">>, data |-> <<"Q", "*", "J", "D">>],
   [success |-> TRUE,  filename |-> <<"d", "e", "c", "k", ".", "a", "p", "k", "g">>, data |-> Undefined],
   [success |-> FALSE, filename |-> Undefined, data |-> Undefined]}

\* exportToAnki lines 38-72 and handleExport lines 108-110: response.json()
\* rejects, or resolves with a body
AnkiJsonSettled(parsed, result) ==
  /\ exportCall.pc = "json"
  /\ ankiResponses' =
       [ankiResponses EXCEPT ![Len(ankiResponses)] =
          [@ EXCEPT !.parsed = parsed,
                    !.result = IF parsed THEN result ELSE NoResult]]
  /\ IF ~parsed \/ ~result.success \/ Atob(result.data).throws
     THEN ExportFailed
     ELSE /\ downloads' =
               Append(downloads,
                      [download |-> result.filename,
                       type     |-> "application/octet-stream",
                       content  |-> Atob(result.data).bytes])
          /\ alerts' =
               Append(alerts,
                      <<"S", "u", "c", "c", "e", "s", "s", "f", "u", "l", "l", "y", " ", "e", "x", "p", "o", "r", "t", "e", "d", " ">>
                      \o NumberToString(Len(exportCall.selectedCardData))
                      \o <<" ", "c", "a", "r", "d", "s", " ", "t", "o", " ", "A", "n", "k", "i", "!">>)
          /\ deckPage' = [deckPage EXCEPT !.exporting = FALSE]
          /\ exportCall' = NoExportCall
          /\ UNCHANGED ankiRequests
  /\ UNCHANGED <<functionVars, uploadVars, listVars>>

ExportInit ==
  /\ InitFor({})
  /\ user = [uid |-> StrU1]
  /\ activeTab = "documents"
  /\ widget = [w \in Widgets |-> IdleWidget]
  /\ metadataLoads = {}
  /\ uploadTasks = [w \in Widgets |-> <<>>]
  /\ ExportIdle
  /\ ListIdle

ExportNext ==
  \/ FetchDeckAndCards
  \/ \E cardId \in CardIdsOf(deckPage.cards) : HandleCardToggle(cardId)
  \/ HandleSelectAll
  \/ \E format \in ExportFormats : SetExportFormat(format)
  \/ \E time \in 0..MaxTime : HandleExport(time)
  \/ \E outcomeOfFetch \in {"rejected", "notOk", "ok"} :
       AnkiFetchSettled(outcomeOfFetch)
  \/ \E parsed \in BOOLEAN, result \in AnkiResults :
       AnkiJsonSettled(parsed, result)

ExportSpec == ExportInit /\ [][ExportNext]_vars

\* The effect of lines 26-74 runs once the user is known, and the reads it
\* awaits settle: a fetch that can run does run.
DeckPageFairSpec == ExportSpec /\ WF_vars(FetchDeckAndCards)

----------------------------------------------------------------------------
(* The decks list page of the web client: app/decks/page.tsx with          *)
(* hooks/useAuth.ts                                                         *)

MaxAuthChanges == 3   \* deliveries of onAuthStateChanged during one visit

\* the users onAuthStateChanged may deliver: nobody, u1 or u2
ListUsers == Users \cup {[uid |-> StrU2]}

\* Deck documents of two users, as onFileUpload writes them
StoredDecks ==
  (<<"u", "1", "_", "a", "_", "0">> :>
     [userId |-> StrU1, title |-> FileTxt, status |-> "completed", total_cards |-> 1])
  @@ (<<"u", "1", "_", "a", "_", "1", "_", "f", "a", "i", "l", "e", "d">> :>
     [userId |-> StrU1, title |-> FileTxt, status |-> "failed", total_cards |-> 0])
  @@ (<<"u", "2", "_", "b", "_", "0">> :>
     [userId |-> StrU2, title |-> FileMp3, status |-> "completed", total_cards |-> 2])

\* query(collection(db, 'decks'), where('userId', '==', uid)): the ids of the
\* documents the query matches (line 22)
DecksOfUser(uid) == {d \in DOMAIN decks : decks[d].userId = uid}

\* useAuth, lines 11-26, with the effect of DecksPage that the new user
\* triggers (lines 16-45): the observer stores the user and ends the hook's
\* loading; when the user has changed the effect runs again, and for a
\* signed-in user fetchDecks sets loading and sends the query.
DecksAuthStateChanged(u) ==
  /\ decksPage.authEvents < MaxAuthChanges
  /\ decksPage.authLoading \/ u # user
  /\ user' = u
  /\ decksPage' =
       [decksPage EXCEPT
          !.authLoading = FALSE,
          !.authEvents = @ + 1,
          !.loading = IF u # user /\ u # NoUser THEN TRUE ELSE @,
          !.fetches = IF u # user /\ u # NoUser THEN @ \cup {u.uid} ELSE @]
  /\ UNCHANGED <<activeTab, widget, metadataLoads, uploadTasks>>
  /\ UNCHANGED <<functionVars, exportVars>>

\* Lines 23-41: the await of getDocs completes; the decks of the answer are
\* stored, or the error is logged, and loading ends.
FetchDecksSettled(uid, resolved) ==
  /\ uid \in decksPage.fetches
  /\ decksPage' =
       [decksPage EXCEPT
          !.fetches = @ \ {uid},
          !.decks = IF resolved THEN DecksOfUser(uid) ELSE @,
          !.loading = FALSE]
  /\ UNCHANGED <<functionVars, uploadVars, exportVars>>

DecksPageInit ==
  /\ InvocationsIdle({}, Events)
  /\ decks \in {[d \in S |-> StoredDecks[d]] : S \in SUBSET DOMAIN StoredDecks}
  /\ cards = [d \in {} |-> NoCards]
  /\ ClientIdle

DecksPageNext ==
  \/ \E u \in ListUsers : DecksAuthStateChanged(u)
  \/ \E uid \in {StrU1, StrU2}, resolved \in BOOLEAN :
       FetchDecksSettled(uid, resolved)

DecksPageSpec == DecksPageInit /\ [][DecksPageNext]_vars

\* Firebase calls the observer once the persisted session has been read, and
\* a query that was sent is answered or fails.
AuthResolves == \E u \in ListUsers : decksPage.authLoading /\ DecksAuthStateChanged(u)
QueryEnds ==
  \E uid \in {StrU1, StrU2}, resolved \in BOOLEAN : FetchDecksSettled(uid, resolved)

DecksPageFairSpec ==
  DecksPageSpec /\ WF_vars(AuthResolves) /\ WF_vars(QueryEnds)

Invocations == DOMAIN pc

\* the write steps an invocation has attempted
WriteEffects == {"deckSet", "batchCommit", "failedDeckSet"}
Attempts(i, effect) ==
  Cardinality({k \in 1..Len(effects[i]) : effects[i][k] = effect})
NoWrites(i) == \A k \in 1..Len(effects[i]) : effects[i][k] \notin WriteEffects

\* the invocation downloaded nothing, asked the AI service nothing and wrote
\* nothing
NoSideEffect(i) ==
  /\ effects[i] = <<>>
  /\ aiRequest[i] = NoRequest
  /\ deckId[i] \notin DOMAIN decks
  /\ failedDeckId[i] \notin DOMAIN decks

\* The object path is exactly uploads/{kind}/{userId}/{filename} with kind
\* documents or audio and a non-empty userId.
ExpectedPath(name) ==
  /\ name # Undefined
  /\ LET parts == Split(name, "/") IN
       /\ Len(parts) = 4
       /\ parts[1] = StrUploads
       /\ parts[2] \in {StrDocuments, StrAudio}
       /\ parts[3] # <<>>

\* C1: an upload whose object path is not exactly the four segments
\* uploads/{kind}/{userId}/{filename}, kind documents or audio, userId
\* non-empty, is never downloaded, never sent to the AI service and leaves no
\* Deck or Flashcard record.
C1_OffPathUploadIsIgnored ==
  \A i \in Invocations : ~ExpectedPath(event[i].name) => NoSideEffect(i)

\* the kind segment of the path, whatever else the path holds
DeclaredKind(name) ==
  IF name = Undefined THEN Undefined
  ELSE LET parts == Split(name, "/") IN
       IF Len(parts) >= 2 THEN parts[2] ELSE Undefined

TenMiB   == 10 * 1024 * 1024
FiftyMiB == 50 * 1024 * 1024

Oversize(e) ==
  \/ e.size > TenMiB /\ DeclaredKind(e.name) = StrDocuments
  \/ e.size > FiftyMiB /\ DeclaredKind(e.name) = StrAudio

\* C2: a documents upload larger than 10 MiB or an audio upload larger than
\* 50 MiB is never downloaded, never sent to the AI service and leaves no
\* Deck or Flashcard record.
C2_OversizeUploadAbortsEarly ==
  \A i \in Invocations : ~NoSideEffect(i) => ~Oversize(event[i])

\* C2 witness: an upload rejected for its size alone has ended.
C2_Witness ==
  \E i \in Invocations :
    /\ pc[i] = "done"
    /\ outcome[i] = "tooLarge"
    /\ event[i].size = TenMiB + 1
    /\ ExpectedPath(event[i].name)

\* the AI service answered 2xx with success = true and a list of flashcards
SuccessAnswer(i) ==
  /\ aiServiceResponse[i].transport = "ok"
  /\ aiServiceResponse[i].body = "object"
  /\ aiServiceResponse[i].success = "true"
  /\ aiServiceResponse[i].cardsShape = "list"

AnsweredCards(i) == aiServiceResponse[i].flashcards

\* every required field of every card is given, and no two cards share an id
WellFormedCards(list) ==
  /\ \A n \in 1..Len(list) :
       /\ Truthy(list[n].id)
       /\ TruthyField(list[n].type)
       /\ TruthyField(list[n].question)
       /\ TruthyField(list[n].answer)
  /\ \A m, n \in 1..Len(list) : m # n => list[m].id # list[n].id

\* the Deck documents invocation i has put in the database
DecksWrittenBy(i) == {deckId[i], failedDeckId[i]} \cap DOMAIN decks

\* exactly one Deck, completed, with total_cards = K, and K cards under it
\* from one batch commit
PersistedDeckWithCards(i, K) ==
  /\ DecksWrittenBy(i) = {deckId[i]}
  /\ decks[deckId[i]].status = "completed"
  /\ decks[deckId[i]].total_cards = K
  /\ Cardinality(DOMAIN CardsOf(deckId[i])) = K
  /\ Attempts(i, "batchCommit") = 1

C4_EmptyListCreatesNoDeck ==
  \A i \in Invocations :
    (SuccessAnswer(i) /\ Len(AnsweredCards(i)) = 0)
    => /\ NoWrites(i)
       /\ DecksWrittenBy(i) = {}
       /\ deckId[i] \notin DOMAIN cards
       /\ pc[i] = "done"

\* C4 witness: an invocation has ended on an empty list.
C4_Witness ==
  \E i \in Invocations :
    /\ SuccessAnswer(i)
    /\ Len(AnsweredCards(i)) = 0
    /\ Attempts(i, "aiRequest") = 1
    /\ pc[i] = "done"

\* the AI call failed: no answer, a non-2xx answer, or a malformed body
AiCallFailed(i) ==
  \/ aiServiceResponse[i].transport \in {"networkError", "non2xx"}
  \/ /\ aiServiceResponse[i].transport = "ok"
     /\ \/ aiServiceResponse[i].body = "null"
        \/ aiServiceResponse[i].success # "true"
        \/ aiServiceResponse[i].cardsShape # "list"

\* C5: every failure of the AI call (network failure, non-2xx, malformed
\* body) takes the failure branch: the finished invocation has attempted the
\* failed-Deck write, that Deck is there when the write succeeded, and no
\* completed Deck was written.
C5_AiFailureTakesFailureBranch ==
  \A i \in Invocations :
    (pc[i] = "done" /\ AiCallFailed(i))
    => /\ Attempts(i, "failedDeckSet") = 1
       /\ Attempts(i, "deckSet") = 0
       /\ outcome[i] \in {"failedDeckCreated", "failedDeckNotCreated"}
       /\ outcome[i] = "failedDeckCreated"
            => /\ failedDeckId[i] \in DOMAIN decks
               /\ decks[failedDeckId[i]].status = "failed"

\* the text the documents branch extracted: the decoded buffer of a text
\* file, the parser's output of a PDF
ExtractedText(i) ==
  IF extraction[i].parse = "ok" THEN extraction[i].text ELSE extraction[i].buffer

TextExtracted(i) ==
  /\ extraction[i].download = "ok"
  /\ extraction[i].buffer.len > 0
  /\ extraction[i].parse \in {"ok", "none"}
  /\ extraction[i].parse = "none" => pc[i] # "pdfParse"

\* content extraction failed: the download failed or was empty, the text
\* extraction threw, or the text is empty after trimming or shorter than 10
ExtractionFailed(i) ==
  \/ extraction[i].download = "failed"
  \/ extraction[i].download = "ok" /\ extraction[i].buffer.len = 0
  \/ extraction[i].parse = "throws"
  \/ /\ TextExtracted(i)
     /\ \/ ExtractedText(i).len = 0
        \/ ExtractedText(i).blank
        \/ ExtractedText(i).len < 10
     /\ DeclaredKind(event[i].name) = StrDocuments

\* C6 as stated: whenever content extraction fails for a validated upload of
\* either kind, no AI request is issued and no Deck write is attempted.
C6_ExtractionFailureLeavesNothing ==
  \A i \in Invocations :
    ExtractionFailed(i) => aiRequest[i] = NoRequest /\ NoWrites(i)

\* C6 amended: whenever content extraction fails for a validated documents
\* upload, no AI request is issued and no Deck write is attempted; for an
\* audio upload a failed download issues no AI request and attempts only the
\* failed-Deck write, and an empty download is forwarded to the AI service.
C6_DocumentExtractionFailureLeavesNothing ==
  \A i \in Invocations :
    extraction[i].download # "none" =>
    LET kind == DeclaredKind(event[i].name) IN
    /\ (kind = StrDocuments /\ ExtractionFailed(i))
       => /\ aiRequest[i] = NoRequest
          /\ NoWrites(i)
          /\ DecksWrittenBy(i) = {}
          /\ pc[i] = "done"
    /\ (kind = StrAudio /\ extraction[i].download = "failed")
       => /\ aiRequest[i] = NoRequest
          /\ Attempts(i, "deckSet") = 0
          /\ pc[i] = "done" => Attempts(i, "failedDeckSet") = 1
    /\ (kind = StrAudio /\ extraction[i].download = "ok" /\ pc[i] = "done")
       => aiRequest[i] # NoRequest

\* C6 witness: a documents upload whose extracted text was nine characters
\* long has ended.
C6_Witness ==
  \E i \in Invocations :
    /\ pc[i] = "done"
    /\ DeclaredKind(event[i].name) = StrDocuments
    /\ TextExtracted(i)
    /\ ExtractedText(i) = [len |-> 9, blank |-> FALSE]

AllEffects ==
  {"download", "pdfParse", "aiRequest", "deckSet", "batchCommit", "failedDeckSet"}

\* the upload passed extraction
ExtractionPassed(i) ==
  /\ TextExtracted(i)
  /\ (ExtractedText(i).blank \/ ExtractedText(i).len < 10)
       => DeclaredKind(event[i].name) # StrDocuments

\* C7: no step is attempted twice by an invocation, a request is on record
\* exactly when one was attempted, and a finished invocation whose upload
\* passed validation and extraction has issued exactly one AI request.
C7_OneRequestNoRetry ==
  \A i \in Invocations :
    /\ \A effect \in AllEffects : Attempts(i, effect) <= 1
    /\ \A k \in 1..Len(effects[i]) : effects[i][k] \in AllEffects
    /\ (aiRequest[i] # NoRequest) <=> (Attempts(i, "aiRequest") = 1)
    /\ (ExtractionPassed(i) /\ pc[i] \notin {"aiCall"})
         => Attempts(i, "aiRequest") = 1

\* C7 witness: the AI call, then the failed-Deck write failed, and the
\* invocation ended after one attempt of each.
C7_Witness ==
  \E i \in Invocations :
    /\ pc[i] = "done"
    /\ ExtractionPassed(i)
    /\ outcome[i] = "failedDeckNotCreated"
    /\ effects[i] = <<"download", "aiRequest", "failedDeckSet">>

\* the allow-lists as the claim names them
ListedTypes(kind) ==
  IF kind = StrDocuments THEN {TypePdf, TypeTxt}
  ELSE IF kind = StrAudio
  THEN {TypeMp3, TypeWav, TypeM4a, TypeFlac, TypeAac, TypeOgg, TypeMpeg}
  ELSE {}

ListedExtensions(kind) ==
  IF kind = StrDocuments THEN {ExtPdf, ExtTxt}
  ELSE IF kind = StrAudio
  THEN {ExtMp3, ExtWav, ExtM4a, ExtFlac, ExtAac, ExtOgg}
  ELSE {}

\* the extension of the filename: the last '.' of the last path segment and
\* what follows it
FilenameExtension(name) ==
  LET filename == Pop(Split(name, "/")) IN
  IF LastIndexOf(filename, ".") = -1 THEN <<>>
  ELSE Substring(filename, LastIndexOf(filename, "."))

\* C8 as stated: whenever the download or the AI request is reached, the
\* content type is one of the kind's listed types and the filename's
\* extension is one of the kind's listed extensions.
C8_TypeAndExtensionListed ==
  \A i \in Invocations :
    effects[i] # <<>>
    => /\ event[i].contentType \in ListedTypes(DeclaredKind(event[i].name))
       /\ FilenameExtension(event[i].name)
            \in ListedExtensions(DeclaredKind(event[i].name))

TypeAndExtensionAccepted(e) ==
  /\ e.name # Undefined
  /\ e.contentType # Undefined
  /\ LET kind == DeclaredKind(e.name) IN
       /\ \E type \in ListedTypes(kind) : StartsWith(e.contentType, type)
       /\ ToLowerCase(FilenameExtension(e.name)) \in ListedExtensions(kind)

\* C8 amended: whenever the download or the AI request is reached, the
\* content type begins with one of the kind's listed types and the
\* filename's extension, lower-cased, is one of the kind's listed
\* extensions; any other content type, a missing content type or any other
\* extension aborts with no side effect and no record.
C8_TypePrefixAndLowercasedExtensionListed ==
  \A i \in Invocations :
    ~NoSideEffect(i) => TypeAndExtensionAccepted(event[i])

\* C8 witness: an upload whose content type is text/plain with a charset
\* parameter and whose extension is upper-case was downloaded.
C8_Witness ==
  \E i \in Invocations :
    /\ Attempts(i, "download") = 1
    /\ event[i].contentType = TypeTxtCharset
    /\ Pop(Split(event[i].name, "/")) = FileUpperPdf

\* a field as the claim has it persisted
KeptOrDefault(supplied, default) ==
  IF supplied # Absent THEN supplied ELSE default
KeptUnlessEmpty(supplied, default) ==
  IF supplied # Absent /\ supplied # "" THEN supplied ELSE default

PositionalId(n) == StrCardPrefix \o NumberToString(n)

\* C9 as stated: after a successful run every flashcard of the response is
\* persisted under its id (card_{n} when none was supplied) with each
\* supplied field kept and each missing field defaulted, and the deck is
\* there.
C9_SuppliedFieldsKept ==
  \A i \in Invocations :
    outcome[i] = "saved"
    => /\ deckId[i] \in DOMAIN decks
       /\ \A n \in 1..Len(flashcards[i]) :
            LET card == flashcards[i][n]
                id   == IF card.id # Undefined THEN card.id ELSE PositionalId(n)
            IN /\ id \in DOMAIN CardsOf(deckId[i])
               /\ LET doc == CardsOf(deckId[i])[id] IN
                    /\ doc.id = id
                    /\ doc.type = KeptOrDefault(card.type, "qa")
                    /\ doc.difficulty = KeptOrDefault(card.difficulty, "medium")
                    /\ doc.question =
                         KeptOrDefault(card.question, "No question generated")
                    /\ doc.answer =
                         KeptOrDefault(card.answer, "No answer provided")

\* the document the claim expects for the card at 1-based position n, an
\* empty field counting as missing
ExpectedCard(card, n) ==
  [id          |-> IF card.id # Undefined /\ card.id # <<>>
                   THEN card.id ELSE PositionalId(n),
   type        |-> KeptUnlessEmpty(card.type, "qa"),
   question    |-> KeptUnlessEmpty(card.question, "No question generated"),
   answer      |-> KeptUnlessEmpty(card.answer, "No answer provided"),
   source_text |-> KeptUnlessEmpty(card.source_text, "Source text not available"),
   difficulty  |-> KeptUnlessEmpty(card.difficulty, "medium")]

\* C9 amended: the card document written for each flashcard keeps every
\* field the response supplied non-empty and fills every missing or empty
\* field with its default (id -> card_{n}); after a successful run it is the
\* persisted card unless a later card of the response has the same id, and
\* the deck is there whatever the cards lack.
C9_NonEmptyFieldsKept ==
  \A i \in Invocations :
    /\ pc[i] = "commitBatch" \/ outcome[i] = "saved"
       => /\ Len(batch[i]) = Len(flashcards[i])
          /\ deckId[i] \in DOMAIN decks
          /\ \A n \in 1..Len(flashcards[i]) :
               /\ batch[i][n].data = ExpectedCard(flashcards[i][n], n)
               /\ batch[i][n].ref = batch[i][n].data.id
    /\ outcome[i] = "saved"
       => \A n \in 1..Len(flashcards[i]) :
            (\A m \in (n + 1)..Len(flashcards[i]) :
               batch[i][m].ref # batch[i][n].ref)
            => /\ batch[i][n].ref \in DOMAIN CardsOf(deckId[i])
               /\ CardsOf(deckId[i])[batch[i][n].ref]
                    = ExpectedCard(flashcards[i][n], n)

\* C9 witness: a run was saved whose second card had no field at all and
\* whose first card had empty fields.
C9_Witness ==
  \E i \in Invocations :
    /\ outcome[i] = "saved"
    /\ Len(flashcards[i]) = 2
    /\ flashcards[i][1].question = ""
    /\ flashcards[i][2].id = Undefined
    /\ flashcards[i][2].type = Absent
    /\ flashcards[i][2].difficulty = Absent
    /\ CardsOf(deckId[i])[PositionalId(2)].type = "qa"

EndsWith(s, suffix) ==
  Len(suffix) <= Len(s)
  /\ SubSeq(s, Len(s) - Len(suffix) + 1, Len(s)) = suffix

\* every deck id the success path can derive for any upload at any time
CompletedDeckIds ==
  {MakeDeckId(ParseUserId(name), name, t) :
     name \in {n \in ObjectNames : PathShapeOk(n)}, t \in 0..MaxTime}

\* C10: every failed Deck has status failed, total_cards 0, an error message
\* and no Flashcards under it; the id the failure branch derives ends in
\* _failed and differs from every id the success path derives, for this and
\* for any other upload; and a completed Deck, once written, stays completed.
C10_FailedDeckIsDistinct ==
  /\ \A d \in DOMAIN decks :
       decks[d].status = "failed"
       => /\ decks[d].total_cards = 0
          /\ decks[d].error_message # ""
          /\ CardsOf(d) = NoCards
          /\ EndsWith(d, StrFailedSuffix)
  /\ \A i \in Invocations :
       /\ pc[i] = "recordFailure"
          => /\ EndsWith(failedDeckId[i], StrFailedSuffix)
             /\ failedDeckId[i] \notin CompletedDeckIds
             /\ \A j \in Invocations : failedDeckId[i] # deckId[j]
       /\ Attempts(i, "failedDeckSet") = 1
          => \A j \in Invocations : failedDeckId[i] # deckId[j]
       /\ pc[i] \in {"commitBatch"} \/ Attempts(i, "batchCommit") = 1
          => /\ deckId[i] \in DOMAIN decks
             /\ decks[deckId[i]].status = "completed"

\* C10 witness: a failed Deck was written after the batch commit failed in
\* the same millisecond in which the deck id was derived.
C10_Witness ==
  \E i \in Invocations :
    /\ outcome[i] = "failedDeckCreated"
    /\ error[i] = "batch commit failed"
    /\ failedDeckId[i] = deckId[i] \o StrFailedSuffix
    /\ decks[failedDeckId[i]].status = "failed"
    /\ decks[deckId[i]].status = "completed"

\* C11: when the write of the failed-Deck record fails, the step ends the
\* invocation (nothing escapes the handler), the database is exactly what it
\* was before the write, and an invocation that has ended attempts nothing
\* more.
C11_FailedRecordWriteFailureIsSilent ==
  [][\A i \in Invocations :
       /\ (pc[i] = "recordFailure" /\ outcome'[i] = "failedDeckNotCreated")
          => /\ decks' = decks
             /\ cards' = cards
             /\ pc'[i] = "done"
             /\ effects'[i] = Append(effects[i], "failedDeckSet")
       /\ pc[i] = "done"
          => /\ pc'[i] = "done"
             /\ effects'[i] = effects[i]
             /\ outcome'[i] = outcome[i]
             /\ decks' = decks
             /\ cards' = cards]_vars

\* C11 witness: the batch commit failed, then the failed-Deck write failed;
\* the invocation has ended and the database holds the completed Deck only.
C11_Witness ==
  \E i \in Invocations :
    /\ pc[i] = "done"
    /\ outcome[i] = "failedDeckNotCreated"
    /\ error[i] = "batch commit failed"
    /\ DOMAIN decks = {deckId[i]}
    /\ effects[i][Len(effects[i])] = "failedDeckSet"

----------------------------------------------------------------------------
(* Properties of the upload widgets *)

\* the upload tasks of widget w that have not ended: the observers of a
\* running task are still to come
InFlight(w) ==
  {k \in DOMAIN uploadTasks[w] : uploadTasks[w][k].state = "running"}

\* C12: a widget never has two upload tasks in flight, uploading is true
\* while one is, and a step starts a new task only while uploading is false
\* (and sets it).
C12_AtMostOneUploadInFlight ==
  /\ [](\A w \in Widgets :
          /\ Cardinality(InFlight(w)) <= 1
          /\ InFlight(w) # {} => widget[w].uploading)
  /\ [][\A w \in Widgets :
          Len(uploadTasks'[w]) > Len(uploadTasks[w])
          => /\ ~widget[w].uploading
             /\ widget'[w].uploading
             /\ InFlight(w) = {}]_vars

\* C12 witness: a widget whose first upload failed has a second one in
\* flight, and another file was picked meanwhile.
C12_Witness ==
  \E w \in Widgets :
    /\ Len(uploadTasks[w]) = 2
    /\ uploadTasks[w][1].state = "error"
    /\ uploadTasks[w][2].state = "running"
    /\ widget[w].file # uploadTasks[w][2].file
    /\ widget[w].uploading

----------------------------------------------------------------------------
(* Properties of the deck page's exports *)

\* the download a step of the page adds, if it adds one
DownloadAdded == Len(downloads') = Len(downloads) + 1
LastDownload == downloads[Len(downloads)]

\* the selected cards in deck order, read from the page's state on its own
SelectedInDeckOrder ==
  LET picked == {k \in 1..Len(deckPage.cards) :
                   deckPage.cards[k].id \in deckPage.selectedCards}
      nth[i \in 1..Cardinality(picked)] ==
        CHOOSE k \in picked : Cardinality({j \in picked : j < k}) = i - 1
  IN [i \in 1..Cardinality(picked) |-> deckPage.cards[nth[i]]]

\* the characters of s at the places keep, in their order
Pick(s, keep) ==
  [i \in 1..Cardinality(keep) |->
     s[CHOOSE k \in keep : Cardinality({j \in keep : j < k}) = i - 1]]

\* the pieces of s between the places seps
CutAt(s, seps) ==
  LET place[i \in 0..(Cardinality(seps) + 1)] ==
        IF i = 0 THEN 0
        ELSE IF i = Cardinality(seps) + 1 THEN Len(s) + 1
        ELSE CHOOSE k \in seps : Cardinality({j \in seps : j < k}) = i - 1
  IN [i \in 1..(Cardinality(seps) + 1) |->
        SubSeq(s, place[i - 1] + 1, place[i] - 1)]

\* the places of ch in s outside quotes: an even number of quote characters
\* comes before them
OutsideQuotes(s, ch) ==
  {k \in 1..Len(s) :
     s[k] = ch /\ Cardinality({j \in 1..(k - 1) : s[j] = "\""}) % 2 = 0}

\* a field of comma-separated text with whether it was quoted; inside a
\* quoted field a doubled quote is one quote
CsvField(piece) ==
  IF Len(piece) >= 2 /\ piece[1] = "\"" /\ piece[Len(piece)] = "\""
  THEN LET inner == SubSeq(piece, 2, Len(piece) - 1)
       IN [text |-> Pick(inner,
                         {k \in 1..Len(inner) :
                            \/ inner[k] # "\""
                            \/ Cardinality({j \in 1..k : inner[j] = "\""}) % 2 = 1}),
           quoted |-> TRUE]
  ELSE [text |-> piece, quoted |-> FALSE]

\* A reader of comma-separated text: records end at a newline outside quotes,
\* fields at a comma outside quotes.
CsvRecords(s) ==
  LET lines == CutAt(s, OutsideQuotes(s, "\n"))
  IN [r \in 1..Len(lines) |->
        LET pieces == CutAt(lines[r], OutsideQuotes(lines[r], ","))
        IN [f \in 1..Len(pieces) |-> CsvField(pieces[f])]]

Quoted(text) == [text |-> text, quoted |-> TRUE]

CsvHeader == <<"F", "r", "o", "n", "t", ",", "B", "a", "c", "k", ",", "T", "y", "p", "e", ",", "D", "i", "f", "f", "i", "c", "u", "l", "t", "y">>

\* the text s holds the text part at some place
Holds(s, part) ==
  \E k \in 0..(Len(s) - Len(part)) : SubSeq(s, k + 1, k + Len(part)) = part

\* C13: a CSV export of the N >= 1 selected cards is the header line
\* Front,Back,Type,Difficulty followed by exactly N records, one per selected
\* card in deck order, each of four quoted fields question, answer, type and
\* difficulty (medium when absent), quotes in question and answer doubled;
\* the card Q1"x / A1 gives "Q1""x","A1","qa","medium".
C13_CsvExport ==
  [][(/\ DownloadAdded
      /\ deckPage.exportFormat = "csv"
      /\ downloads'[Len(downloads')].type = "text/csv")
     => LET content == downloads'[Len(downloads')].content
            records == CsvRecords(content)
            chosen  == SelectedInDeckOrder
        IN /\ Len(chosen) >= 1
           /\ SubSeq(content, 1, Len(CsvHeader) + 1) = CsvHeader \o <<"\n">>
           /\ Len(records) = Len(chosen) + 1
           /\ \A i \in 1..Len(chosen) :
                /\ records[i + 1] =
                     <<Quoted(chosen[i].question), Quoted(chosen[i].answer),
                       Quoted(chosen[i].type),
                       Quoted(IF chosen[i].difficulty = Undefined
                              THEN <<"m", "e", "d", "i", "u", "m">>
                              ELSE chosen[i].difficulty)>>
                /\ chosen[i] = PageCard1
                   => Holds(content, <<"\n">> \o <<"\"", "Q", "1", "\"", "\"", "x", "\"", ",", "\"", "A", "1", "\"", ",", "\"", "q", "a", "\"", ",", "\"", "m", "e", "d", "i", "u", "m", "\"">>)]_vars

\* C13 witness: a CSV file of two cards has been downloaded, the first the
\* card Q1"x and the second one whose question holds a newline.
C13_Witness ==
  /\ Len(downloads) = 1
  /\ LastDownload.type = "text/csv"
  /\ SubSeq(LastDownload.content, 1, Len(CsvHeader)) = CsvHeader
  /\ Len(CsvRecords(LastDownload.content)) = 3
  /\ CsvRecords(LastDownload.content)[2][1] = Quoted(PageCard1.question)
  /\ CsvRecords(LastDownload.content)[3][1] = Quoted(PageCard3.question)

\* C14: a Quizlet-text export of the N >= 1 selected cards is exactly N
\* lines separated by newlines, line i being question<TAB>answer of the i-th
\* selected card in deck order, with no header line and no trailing line.
C14_QuizletTextLines ==
  [][(/\ DownloadAdded
      /\ deckPage.exportFormat = "quizlet-txt"
      /\ downloads'[Len(downloads')].type = "text/plain")
     => LET lines  == Split(downloads'[Len(downloads')].content, "\n")
            chosen == SelectedInDeckOrder
        IN /\ Len(chosen) >= 1
           /\ Len(lines) = Len(chosen)
           /\ \A i \in 1..Len(chosen) :
                lines[i] = chosen[i].question \o <<"\t">> \o chosen[i].answer]_vars

\* A reader of JSON text (JSON.parse for objects, arrays, strings and
\* non-negative whole numbers).  The text is first cut into tokens, one
\* character at a time.
JsonPunctuation == {"{", "}", "[", "]", ",", ":"}
JsonWhitespace  == {" ", "\n", "\t"}

DigitValue(ch) == (CHOOSE d \in 1..Len(Digits) : Digits[d] = ch) - 1
IsDigit(ch)    == \E d \in 1..Len(Digits) : Digits[d] = ch

LexStart == [mode |-> "out", cur |-> <<>>, num |-> 0, tokens |-> <<>>]

\* the tokens with a number that has just ended put at their end
NumberEnded(st) ==
  IF st.mode = "num" THEN Append(st.tokens, <<"num", st.num>>) ELSE st.tokens

LexStep(st, ch) ==
  CASE st.mode = "bad" -> st
    [] st.mode = "str" ->
         IF ch = "\"" THEN [st EXCEPT !.mode = "out", !.cur = <<>>,
                                      !.tokens = Append(@, <<"str", st.cur>>)]
         ELSE IF ch = "\\" THEN [st EXCEPT !.mode = "esc"]
         ELSE IF ch \in {"\n", "\t"} THEN [st EXCEPT !.mode = "bad"]
         ELSE [st EXCEPT !.cur = Append(@, ch)]
    [] st.mode = "esc" ->
         IF ch \in {"\"", "\\", "/"}
         THEN [st EXCEPT !.mode = "str", !.cur = Append(@, ch)]
         ELSE IF ch = "n" THEN [st EXCEPT !.mode = "str", !.cur = Append(@, "\n")]
         ELSE IF ch = "t" THEN [st EXCEPT !.mode = "str", !.cur = Append(@, "\t")]
         ELSE [st EXCEPT !.mode = "bad"]
    [] OTHER ->
         IF IsDigit(ch)
         THEN [st EXCEPT !.mode = "num",
                         !.num = (IF st.mode = "num" THEN @ ELSE 0) * 10
                                 + DigitValue(ch)]
         ELSE IF ch = "\""
         THEN [st EXCEPT !.mode = "str", !.cur = <<>>, !.tokens = NumberEnded(st)]
         ELSE IF ch \in JsonPunctuation
         THEN [st EXCEPT !.mode = "out",
                         !.tokens = Append(NumberEnded(st), <<"punct", ch>>)]
         ELSE IF ch \in JsonWhitespace
         THEN [st EXCEPT !.mode = "out", !.tokens = NumberEnded(st)]
         ELSE [st EXCEPT !.mode = "bad"]

\* the characters from..last of s read in state st
RECURSIVE LexRun(_, _, _, _)
LexRun(s, from, last, st) ==
  IF from > last THEN st
  ELSE LET next == LexStep(st, s[from])
       IN IF next.mode = "bad" THEN next ELSE LexRun(s, from + 1, last, next)

\* s read from the place from on, fifty characters at a time
RECURSIVE LexFrom(_, _, _)
LexFrom(s, from, st) ==
  IF from > Len(s) THEN st
  ELSE LET last == IF from + 49 < Len(s) THEN from + 49 ELSE Len(s)
           next == LexRun(s, from, last, st)
       IN IF next.mode = "bad" THEN next ELSE LexFrom(s, last + 1, next)

JsonSyntaxError == <<"SyntaxError", <<>>>>
NotRead == [ok |-> FALSE, value |-> JsonSyntaxError, next |-> 0]

IsPunct(tokens, i, ch) ==
  i <= Len(tokens) /\ tokens[i][1] = "punct" /\ tokens[i][2] = ch

\* the value that starts at token i, and the token after it
RECURSIVE ReadValue(_, _)
RECURSIVE ReadMembers(_, _, _)
RECURSIVE ReadItems(_, _, _)
ReadValue(tokens, i) ==
  IF i > Len(tokens) THEN NotRead
  ELSE IF tokens[i][1] = "str"
  THEN [ok |-> TRUE, value |-> JStr(tokens[i][2]), next |-> i + 1]
  ELSE IF tokens[i][1] = "num"
  THEN [ok |-> TRUE, value |-> JNum(tokens[i][2]), next |-> i + 1]
  ELSE IF IsPunct(tokens, i, "{")
  THEN IF IsPunct(tokens, i + 1, "}")
       THEN [ok |-> TRUE, value |-> JObj(<<>>), next |-> i + 2]
       ELSE ReadMembers(tokens, i + 1, <<>>)
  ELSE IF IsPunct(tokens, i, "[")
  THEN IF IsPunct(tokens, i + 1, "]")
       THEN [ok |-> TRUE, value |-> JArr(<<>>), next |-> i + 2]
       ELSE ReadItems(tokens, i + 1, <<>>)
  ELSE NotRead

ReadMembers(tokens, i, props) ==
  IF i + 2 > Len(tokens) \/ tokens[i][1] # "str" \/ ~IsPunct(tokens, i + 1, ":")
  THEN NotRead
  ELSE LET member == ReadValue(tokens, i + 2)
           all    == Append(props, <<tokens[i][2], member.value>>)
       IN IF ~member.ok THEN NotRead
          ELSE IF IsPunct(tokens, member.next, ",")
          THEN ReadMembers(tokens, member.next + 1, all)
          ELSE IF IsPunct(tokens, member.next, "}")
          THEN [ok |-> TRUE, value |-> JObj(all), next |-> member.next + 1]
          ELSE NotRead

ReadItems(tokens, i, items) ==
  LET item == ReadValue(tokens, i)
      all  == Append(items, item.value)
  IN IF ~item.ok THEN NotRead
     ELSE IF IsPunct(tokens, item.next, ",")
     THEN ReadItems(tokens, item.next + 1, all)
     ELSE IF IsPunct(tokens, item.next, "]")
     THEN [ok |-> TRUE, value |-> JArr(all), next |-> item.next + 1]
     ELSE NotRead

JsonParse(s) ==
  LET st     == LexFrom(s, 1, LexStart)
      tokens == NumberEnded(st)
      read   == ReadValue(tokens, 1)
  IN IF st.mode \in {"out", "num"} /\ read.ok /\ read.next = Len(tokens) + 1
     THEN read.value
     ELSE JsonSyntaxError

\* value.key of a parsed object: the last member of that name, or undefined
Property(value, key) ==
  IF value[1] # "obj" THEN JUndefined
  ELSE LET at == {k \in 1..Len(value[2]) : value[2][k][1] = key}
       IN IF at = {} THEN JUndefined
          ELSE value[2][CHOOSE k \in at : \A j \in at : j <= k][2]

\* the parsed value is the string text, or is absent when text is undefined
IsText(value, text) ==
  IF text = Undefined THEN value[1] = "undefined"
  ELSE value[1] = "str" /\ value[2] = text

\* the cards array and deck.total_cards of a parsed export are those of the
\* cards chosen
RoundTrip(parsed, chosen) ==
  \A readCards \in {Property(parsed, <<"c", "a", "r", "d", "s">>)},
     readDeck \in {Property(parsed, <<"d", "e", "c", "k">>)} :
    /\ readCards[1] = "arr"
    /\ Len(readCards[2]) = Len(chosen)
    /\ \A i \in 1..Len(chosen) :
         \A card \in {readCards[2][i]} :
           /\ IsText(Property(card, <<"q", "u", "e", "s", "t", "i", "o", "n">>), chosen[i].question)
           /\ IsText(Property(card, <<"a", "n", "s", "w", "e", "r">>), chosen[i].answer)
           /\ IsText(Property(card, <<"t", "y", "p", "e">>), chosen[i].type)
           /\ IsText(Property(card, <<"d", "i", "f", "f", "i", "c", "u", "l", "t", "y">>), chosen[i].difficulty)
    /\ \A readTotal \in {Property(readDeck, <<"t", "o", "t", "a", "l", "_", "c", "a", "r", "d", "s">>)} :
         readTotal[1] = "num" /\ readTotal[2] = Len(chosen)

\* C15: parsing the JSON export of a non-empty selection gives a cards array
\* equal to the selected cards, in their order, by question, answer, type
\* and difficulty, and deck.total_cards is the number of selected cards.
C15_JsonRoundTrip ==
  [][(/\ DownloadAdded
      /\ deckPage.exportFormat = "json"
      /\ downloads'[Len(downloads')].type = "application/json")
     => \A parsed \in {JsonParse(downloads'[Len(downloads')].content)},
           chosen \in {SelectedInDeckOrder} :
          Len(chosen) >= 1 /\ RoundTrip(parsed, chosen)]_vars

\* C15 witness: a JSON file of two cards has been downloaded; read back, its
\* second card's answer holds quotes and a backslash and its first card has
\* no difficulty.
C15_Witness ==
  /\ Len(downloads) = 1
  /\ LastDownload.type = "application/json"
  /\ \E parsed \in {JsonParse(LastDownload.content)} :
       /\ RoundTrip(parsed, <<PageCard1, PageCard2>>)
       /\ PageCard1.difficulty = Undefined
       /\ Holds(PageCard2.answer, <<"\"">>)

\* a step of the page sends a request to the service
RequestSent == Len(ankiRequests') = Len(ankiRequests) + 1

\* a step of the page ends the reading of a response: the body read and
\* whether the service reports success in it
BodyRead == exportCall.pc = "json" /\ exportCall'.pc = "idle"
LastResponse == ankiResponses[Len(ankiResponses)]
SuccessResponse(response) ==
  response.fetch = "ok" /\ response.parsed /\ response.result.success

\* the bytes of the two base64 texts of AnkiResults, by RFC 4648
KnownBytes(data) ==
  IF data = <<"Q", "U", "J", "D">> THEN <<65, 66, 67>>
  ELSE IF data = <<"Q", "Q", "=", "=">> THEN <<65>>
  ELSE <<>>

\* the request carries the card list wanted and a deck name, and no file is
\* made up by the page itself
AnkiRequestCarries(wanted) ==
  RequestSent
  => /\ ankiRequests' =
          Append(ankiRequests,
                 [url |-> "/export-anki", method |-> "POST",
                  flashcards |-> wanted,
                  deck_name |-> IF deckPage.deck.title \in {Undefined, <<>>}
                                THEN <<"F", "l", "a", "s", "h", "G", "e", "n", " ", "E", "x", "p", "o", "r", "t">>
                                ELSE deckPage.deck.title])
     /\ deckPage.exportFormat = "anki"
     /\ downloads' = downloads

\* the one download of a response is the decoded data under the returned name
AnkiDownloadIs(result) ==
  /\ Len(downloads') = Len(downloads) + 1
  /\ downloads'[Len(downloads')].download = result.filename
  /\ downloads'[Len(downloads')].content = KnownBytes(result.data)
  /\ SubSeq(downloads', 1, Len(downloads)) = downloads

AnkiFailureReceived ==
  /\ Len(ankiResponses') >= 1
  /\ ankiResponses' # ankiResponses
  /\ \A response \in {ankiResponses'[Len(ankiResponses')]} :
       \/ response.fetch \in {"rejected", "notOk"}
       \/ response.parsed /\ ~response.result.success

ExportFailedMessage == <<"E", "x", "p", "o", "r", "t", " ", "f", "a", "i", "l", "e", "d", ".", " ", "P", "l", "e", "a", "s", "e", " ", "t", "r", "y", " ", "a", "g", "a", "i", "n", ".">>

\* C17: when an Anki export fails (the request rejects, the status is not
\* OK, or the response has success=false) no download is offered, no success
\* message is shown, the user sees 'Export failed. Please try again.', and
\* the deck, its cards and the selection are unchanged.
C17_AnkiFailureIsGeneric ==
  [][AnkiFailureReceived
     => /\ downloads' = downloads
        /\ alerts' = Append(alerts, ExportFailedMessage)
        /\ deckPage'.deck = deckPage.deck
        /\ deckPage'.cards = deckPage.cards
        /\ deckPage'.selectedCards = deckPage.selectedCards]_vars

\* C17 witness: the service answered success=false to the one request; the
\* page shows one alert and offers no download.
C17_Witness ==
  /\ Len(ankiResponses) = 1
  /\ LastResponse.fetch = "ok"
  /\ LastResponse.parsed
  /\ ~LastResponse.result.success
  /\ alerts = <<ExportFailedMessage>>
  /\ downloads = <<>>
  /\ deckPage.selectedCards # {}

\* a step of the page starts an export: handleExport goes past its check of
\* the selection, which ends in a request or, within the click, in a download
ExportStarted == RequestSent \/ (DownloadAdded /\ exportCall.pc = "idle")

\* C18: exporting is true exactly while an export is outstanding: it becomes
\* true when handleExport starts with a card selected, no export starts
\* while it is true, it is false after the export has ended by any path, and
\* with nothing selected no export is running or started: no download, no
\* request, exporting false.
C18_BusyWhileOutstanding ==
  /\ [](deckPage.exporting <=> exportCall.pc # "idle")
  /\ [][/\ ExportStarted
           => /\ ~deckPage.exporting
              /\ deckPage.selectedCards # {}
              /\ deckPage'.exporting <=> RequestSent
        /\ (exportCall.pc # "idle" /\ exportCall'.pc = "idle")
           => ~deckPage'.exporting
        /\ (deckPage.selectedCards = {} /\ exportCall.pc = "idle")
           => /\ downloads' = downloads
              /\ ankiRequests' = ankiRequests
              /\ ~deckPage'.exporting]_vars

\* C18 witness: an Anki export is outstanding, its response being read, and
\* the page is busy although another format has been chosen meanwhile and
\* every card deselected.
C18_Witness ==
  /\ deckPage.exporting
  /\ exportCall.pc = "json"
  /\ Len(ankiRequests) = 1
  /\ deckPage.exportFormat = "csv"
  /\ deckPage.selectedCards = {}
  /\ deckPage.cards # <<>>

C20_CompletedWasProcessing ==
  [][\A d \in DOMAIN decks' :
       decks'[d].status = "completed"
       => /\ d \in DOMAIN decks
          /\ decks[d].status \in {"processing", "completed"}]_vars

----------------------------------------------------------------------------
(* Properties of concurrent invocations *)

\* C21: two invocations whose uploads differ in filename derive different
\* deck identifiers, and no step of one invocation writes a Deck or a card
\* collection that the other one has written.
C21_DistinctDeckIds ==
  \A i, j \in Invocations :
    (/\ i # j
     /\ event[i].name # event[j].name
     /\ deckId[i] # <<>>
     /\ deckId[j] # <<>>)
    => /\ deckId[i] # deckId[j]
       /\ DecksWrittenBy(i) \cap DecksWrittenBy(j) = {}

----------------------------------------------------------------------------
(* Properties of the persisted deck *)

\* C22: once an invocation's batch commit has succeeded, the deck's cards
\* sub-collection holds as many Flashcard documents as the deck's
\* total_cards says, one per card of the AI list under an identifier of its
\* own, whatever the ids of the AI list are.
C22_CardCountIsTotalCards ==
  \A i \in Invocations :
    outcome[i] = "saved"
    => /\ Cardinality(DOMAIN CardsOf(deckId[i])) = decks[deckId[i]].total_cards
       /\ \A m, n \in 1..Len(batch[i]) :
            m # n => batch[i][m].ref # batch[i][n].ref

\* the references that the batches committed under deck d have written
CommittedRefs(d) ==
  UNION {{batch[i][n].ref : n \in 1..Len(batch[i])} :
           i \in {j \in Invocations : deckId[j] = d /\ outcome[j] = "saved"}}

\* C23: the Deck document is there before the card batch is committed; a
\* deck's cards sub-collection is empty or holds the whole of every batch
\* committed under the deck, and nothing else; Flashcard documents exist
\* only under a Deck document that exists.
C23_DeckBeforeCardsAllOrNothing ==
  /\ [](/\ \A d \in DOMAIN cards :
             /\ d \in DOMAIN decks
             /\ DOMAIN cards[d] = CommittedRefs(d)
        /\ \A i \in Invocations :
             /\ outcome[i] = "saved"
                => /\ Len(batch[i]) = Len(flashcards[i])
                   /\ Len(batch[i]) >= 1
                   /\ DOMAIN CardsOf(deckId[i]) = CommittedRefs(deckId[i])
             /\ (deckId[i] # <<>> /\ CommittedRefs(deckId[i]) = {})
                => CardsOf(deckId[i]) = NoCards)
  /\ [][\A d \in DOMAIN cards' :
          CardsOf(d)' # CardsOf(d) => d \in DOMAIN decks]_vars

\* C23 witness: a batch of two cards with ids of their own has been committed
\* under the deck written before it.
C23_Witness ==
  \E i \in Invocations :
    /\ outcome[i] = "saved"
    /\ Len(batch[i]) = 2
    /\ Cardinality(DOMAIN CardsOf(deckId[i])) = 2
    /\ deckId[i] \in DOMAIN decks
    /\ effects[i][Len(effects[i])] = "batchCommit"

----------------------------------------------------------------------------
(* Properties of the text sent for a document *)

\* the invocation is past its AI request
PastAiRequest(i) ==
  pc[i] \in {"writeDeck", "commitBatch", "recordFailure", "done"}

----------------------------------------------------------------------------
(* Properties of the records of one invocation *)

\* C25: an invocation creates at most one Deck record; whatever step fails,
\* no run leaves both a completed Deck and a failed Deck of the same upload.
C25_AtMostOneDeckPerInvocation ==
  \A i \in Invocations :
    /\ Cardinality(DecksWrittenBy(i)) <= 1
    /\ ~(/\ deckId[i] \in DOMAIN decks
         /\ failedDeckId[i] \in DOMAIN decks
         /\ decks[deckId[i]].status = "completed"
         /\ decks[failedDeckId[i]].status = "failed")

----------------------------------------------------------------------------
(* The audio widget's validation against the function's *)

\* the storage-finalize event of an upload task: the object is stored under
\* the task's reference with the File's type and size
EventOf(task) ==
  [name |-> task.ref, contentType |-> task.file.type, size |-> task.file.size]

\* C30: every file that AudioUpload has accepted and uploaded passes every
\* check of onFileUpload on the object it is stored as.
C30_ClientAcceptedAudioPassesServer ==
  \A k \in DOMAIN uploadTasks["AudioUpload"] :
    LET task == uploadTasks["AudioUpload"][k]
    IN /\ validateFile(task.file) = Null
       /\ Validate(EventOf(task)) = "accepted"

----------------------------------------------------------------------------
(* Properties of the deck page's loading state *)

\* C26: for a signed-in user every run of fetchDeckAndCards ends with
\* loading = false, whether the deck is found, does not exist or a read
\* fails, so that the message of a deck that does not exist is displayed
\* and the spinner does not remain.
C26_FetchEndsLoading ==
  (user # NoUser /\ deckPage.loading) ~> ~deckPage.loading

----------------------------------------------------------------------------
(* Properties of the deck page's access to decks *)

----------------------------------------------------------------------------
(* Properties of the upload widgets' busy state *)

\* C27: every upload that handleUpload of either widget started ends with
\* uploading = false: when the transfer fails, when it completes and the
\* download URL is obtained, and when it completes and obtaining the URL
\* fails.
C27_UploadEndsNotUploading ==
  \A w \in Widgets : widget[w].uploading ~> ~widget[w].uploading

----------------------------------------------------------------------------
(* Properties of the decks list page *)

\* the page has left its loading state and shows its list to a signed-in user
ListRendered == ~decksPage.loading /\ user # NoUser

\* C28: once the auth state has resolved the page leaves its loading state,
\* whether or not a user is signed in, so that AuthGuard is rendered for a
\* visitor who is not signed in; and the decks shown are the fetched decks
\* whose userId is the uid of the signed-in user.
C28_ListLeavesLoadingAndShowsOwnDecks ==
  /\ ~decksPage.authLoading ~> ~decksPage.loading
  /\ [](ListRendered
        => \A d \in decksPage.decks : decks[d].userId = user.uid)

====
